---- MODULE Spec2Model ----
(***************************************************************************)
(* Model of the binary acquisition and execution subsystem of saorsa-cli:  *)
(* Downloader (cli/src/downloader.rs), BinaryRunner (cli/src/runner.rs)    *)
(* and their callers in cli/src/main.rs, over an explicit model of the     *)
(* cache directory (directory entries, inodes, open file handles).         *)
(***************************************************************************)
EXTENDS Naturals, Sequences, FiniteSets, TLC

VARIABLES
    platform,   \* the Platform detected at start-up (main.rs:79)
    dir,        \* cache directory: path -> inode id (0 = no entry)
    inodes,     \* inode id -> [data, mode]
    pc,         \* per flow of control: position inside download_binary
    args,       \* per flow: [tool, force] of the current download_binary call
    release,    \* per flow: the GitHubRelease obtained by get_latest_release
    asset,      \* per flow: the GitHubAsset selected at downloader.rs:132
    stream,     \* per flow: the bytes of the response body not yet received
    fetched,    \* per flow: the body received by download_asset (empty again
                \* when the download fails)
    fd,         \* per flow: open file handles and their offsets
    downloaded, \* per flow: download_asset's `downloaded` counter
    result,     \* per flow: what the last download_binary call returned
    net,        \* per flow: requests issued by the current call
    calls,      \* per flow: download_binary calls the flow may still start
    snap,       \* per flow: the final cache path's file when the call began
    wrote,      \* per flow: TRUE once the current call changed the cache dir
    good,       \* per tool: contents installed by acquisitions that succeeded
    launched,   \* what run_interactive executed last
    raw_mode,   \* TRUE while the terminal is in raw mode (crossterm)
    runres,     \* per flow: what the last run_interactive call did
    verified,   \* per flow: the last verify_checksum call and its outcome
    config,     \* the Config loaded at start-up (main.rs:74)
    host,       \* what the release host serves: which archives, and whether
                \* its responses carry a Content-Length
    pb,         \* per flow: the ProgressBar of download_asset
    environ,    \* the process environment: PATH and the utilities on it
    located,    \* what the last BinaryRunner::which call returned
    avail,      \* main's (sb_path, sdisk_path): what check_binaries returned
    menu,       \* the Menu of main: the selected index, run_loop's result
    main        \* the position of main (main.rs:106-159) in its loop

vars == <<platform, dir, inodes, pc, args, release, asset, stream,
          fetched, fd, downloaded, result, net, calls, snap, wrote, good,
          launched, raw_mode, runres, verified, config, host, pb, environ,
          located, avail, menu, main>>

\* the state of main's menu loop
MainState == << avail, menu, main >>

(***************************************************************************)
(* Bounds of the model.                                                    *)
(***************************************************************************)
MaxCalls == 2       \* download_binary calls per flow of control
MaxRounds == 2      \* iterations of main's menu loop (SpecMain)
ChunkLen == 2       \* bytes delivered by one stream.next()

Procs == {"p1", "p2"}       \* concurrent flows of control (SpecConc)
MainFlow == {"p1"}          \* the single flow of main.rs (Spec)

(***************************************************************************)
(* Platform (cli/src/platform.rs is not part of the sources; modelled from *)
(* spec section 4.1).                                                      *)
(***************************************************************************)
Platforms == { [os |-> "linux", arch |-> "x86_64"],
               [os |-> "windows", arch |-> "x86_64"] }

IsUnix(pl) == pl.os # "windows"

binary_extension(pl) == IF pl.os = "windows" THEN ".exe" ELSE ""

archive_extension(pl) == IF pl.os = "windows" THEN ".zip" ELSE ".tar.gz"

asset_name_NoExtension(pl, tool) ==
    tool \o "-" \o pl.os \o "-" \o pl.arch

asset_name(pl, tool) ==
    tool \o "-" \o pl.os \o "-" \o pl.arch \o archive_extension(pl)

(***************************************************************************)
(* Tool names the program acquires, and the cache layout.                  *)
(***************************************************************************)
Tools == {"sb", "sdisk"}

cache_dir == "saorsa-cli/binaries"

PathJoin(base, name) == base \o "/" \o name

\* Config.cache.directory: Option<PathBuf>, << >> for None
DefaultConfig ==
    [ cache |-> [ directory |-> << >> ],
      behavior |-> [ use_system_binaries |-> FALSE ] ]

OverrideConfig ==
    [ cache |-> [ directory |-> << "/srv/saorsa" >> ],
      behavior |-> [ use_system_binaries |-> FALSE ] ]

\* --use-system, or use_system_binaries = true in the configuration file
SystemConfig ==
    [ cache |-> [ directory |-> << >> ],
      behavior |-> [ use_system_binaries |-> TRUE ] ]

Configs == { DefaultConfig, OverrideConfig }

\* a cache path that does not depend on the tool name
binary_path_NameDropped(binary_name, pl) ==
    PathJoin(cache_dir, "binary" \o binary_extension(pl))

binary_path(binary_name, pl) ==
    PathJoin(cache_dir, binary_name \o binary_extension(pl))

archive_path_of(asset_file_name) == PathJoin(cache_dir, asset_file_name)

\* Config::cache_dir: the override when there is one, the default otherwise
Config_cache_dir(cfg) ==
    IF cfg.cache.directory # << >> THEN cfg.cache.directory[1] ELSE cache_dir

\* every path of the cache directory the model tracks
CachePaths(pl) ==
    { binary_path(t, pl) : t \in Tools }
        \cup { archive_path_of(asset_name(pl, t)) : t \in Tools }

(***************************************************************************)
(* Archive contents.  A file is a sequence of tokens <<kind, path, n>>:    *)
(*   <<"hdr", path, len>>    an entry header; path is the sequence of the  *)
(*                           components of the entry's path                *)
(*   <<"dat", <<>>, b>>      one byte b of entry data                      *)
(*   <<"bad", <<>>, 0>>      a damaged stretch of the compressed stream    *)
(*   <<"cd",  <<>>, k>>      a zip central directory listing k entries     *)
(***************************************************************************)
Hdr(path, n) == <<"hdr", path, n>>
Dat(b) == <<"dat", << >>, b>>
BadTok == <<"bad", << >>, 0>>
Cd(k) == <<"cd", << >>, k>>

Versions == {1, 2}

\* the bytes of the tool binary published as version v
Payload(v) == << Dat(10 * v + 1), Dat(10 * v + 2) >>

Trailer(pl, k) == IF archive_extension(pl) = ".zip" THEN << Cd(k) >> ELSE << >>

\* a well-formed archive holding the tool as its only member
GoodArchive(pl, tool, v) ==
    << Hdr(<< tool \o binary_extension(pl) >>, 2) >> \o Payload(v)
        \o Trailer(pl, 1)

\* an archive whose member starts correctly and is damaged half way
CorruptArchive(pl, tool) ==
    << Hdr(<< tool \o binary_extension(pl) >>, 2), Dat(21), BadTok >>
        \o Trailer(pl, 1)

\* a well-formed archive that does not hold the tool
OtherArchive(pl) == << Hdr(<< "README" >>, 1), Dat(7) >> \o Trailer(pl, 1)

\* a one-byte build of the tool
SmallPayload == << Dat(31) >>

\* an archive made of one file called by the bare name of the tool
ShortArchive(pl, tool) ==
    << Hdr(<< tool >>, Len(SmallPayload)) >> \o SmallPayload \o Trailer(pl, 1)

\* the tool inside a directory, after another file and before a second,
\* damaged entry of the same base name
NestedArchive(pl, tool) ==
    << Hdr(<< "docs", "README" >>, 1), Dat(7),
       Hdr(<< "bin", tool \o binary_extension(pl) >>, 2) >> \o Payload(2)
        \o << Hdr(<< "old", tool \o binary_extension(pl) >>, 1), BadTok >>
        \o Trailer(pl, 3)

\* a file called by the bare name before one called with the .exe suffix
SuffixOrderArchive(pl, tool) ==
    << Hdr(<< tool >>, 1), Dat(51), Hdr(<< tool \o ".exe" >>, 2) >>
        \o Payload(2) \o Trailer(pl, 2)

\* a directory called like the tool that holds another file
DirNamedArchive(pl, tool) ==
    << Hdr(<< tool, "README" >>, 1), Dat(7) >> \o Trailer(pl, 1)

RichArchives(pl, tool) ==
    { ShortArchive(pl, tool), NestedArchive(pl, tool),
      SuffixOrderArchive(pl, tool), DirNamedArchive(pl, tool) }

\* the bodies the release host h may answer an asset GET with
Bodies(h, pl, tool) ==
    { GoodArchive(pl, tool, v) : v \in Versions }
        \cup { CorruptArchive(pl, tool), OtherArchive(pl) }
        \cup ( IF h.archives = "rich" THEN RichArchives(pl, tool) ELSE { } )

(***************************************************************************)
(* Checksums (Downloader::verify_checksum).  Sha256Hex stands for          *)
(* hex::encode(Sha256(file)): collision free, lower-case hexadecimal.  A   *)
(* hexadecimal string is the digest it spells and the case of its letters. *)
(***************************************************************************)
HexCases == { "lower", "upper", "mixed" }

Sha256Hex(data) == [sha256 |-> data, case |-> "lower"]


verify_checksum(data, expectedHex) == Sha256Hex(data) = expectedHex

(***************************************************************************)
(* The release host.                                                       *)
(***************************************************************************)
UrlOf(asset_file_name) == "https://github.com/download/" \o asset_file_name

GitHubAsset(pl, tool) ==
    [ name |-> asset_name(pl, tool),
      browser_download_url |-> UrlOf(asset_name(pl, tool)),
      size |-> Len(GoodArchive(pl, tool, 1)) ]

OtherPlatform(pl) == CHOOSE q \in Platforms : q # pl

\* a release publishing every tool for platform pl
ReleaseFor(pl) ==
    [ tag_name |-> "v1.2.0",
      assets |-> << GitHubAsset(pl, "sb"), GitHubAsset(pl, "sdisk") >> ]

\* the releases the host may report to a client running on pl: one that
\* publishes the tools for pl and one that publishes them for another platform
Releases(pl) == { ReleaseFor(pl), ReleaseFor(OtherPlatform(pl)) }

\* the JSON arrays the list-all-releases endpoint may answer with
ReleaseLists(pl) ==
    { << >> } \cup { << r >> : r \in Releases(pl) }
        \cup { l \in { << r, q >> : r \in Releases(pl), q \in Releases(pl) } :
                    l[1] # l[2] }

\* an answer of the release API: whether send() obtained one, its status,
\* whether its body decodes to what the client asks for, and the releases
\* the body then holds
Statuses == { 200, 404 }

IsSuccess(status) == status \in 200 .. 299

NoAnswer == [ arrived |-> FALSE, status |-> 0, decodes |-> FALSE,
              releases |-> << >> ]

Answer(status, decodes, releases) ==
    [ arrived |-> TRUE, status |-> status, decodes |-> decodes,
      releases |-> releases ]

\* answers of GET .../releases/latest: a release, or a body that is none
LatestAnswers(pl) ==
    { NoAnswer }
        \cup { Answer(200, TRUE, << r >>) : r \in Releases(pl) }
        \cup { Answer(st, FALSE, << >>) : st \in Statuses }

\* answers of GET .../releases: an array of releases, or a body that is none
ListAnswers(pl) ==
    { NoAnswer }
        \cup { Answer(st, TRUE, l) : st \in Statuses, l \in ReleaseLists(pl) }
        \cup { Answer(st, FALSE, << >>) : st \in Statuses }

\* the last element of the list instead of the first
FirstRelease_Last(l) == l[Len(l)]

\* downloader.rs:99-100: releases.into_iter().next()
FirstRelease(l) == Head(l)

NoAsset == [ name |-> "", browser_download_url |-> "", size |-> 0 ]

NoRelease == [ tag_name |-> "", assets |-> << >> ]

\* an asset lookup that takes the first asset whatever its name
FindAsset_First(assets, name) ==
    IF assets = << >> THEN NoAsset ELSE Head(assets)

RECURSIVE FindAsset(_, _)
\* release.assets.iter().find(|a| a.name == asset_name)
FindAsset(assets, name) ==
    IF assets = << >> THEN NoAsset
    ELSE IF Head(assets).name = name THEN Head(assets)
    ELSE FindAsset(Tail(assets), name)

\* a release host: the archives it serves, whether its responses to an asset
\* GET carry a Content-Length header, and the status they carry
PlainHost(with_length) ==
    [ archives |-> "plain", content_length |-> with_length, asset_status |-> 200 ]

\* a host that also serves archives of several entries
RichHost == [ archives |-> "rich", content_length |-> TRUE, asset_status |-> 200 ]

\* the bodies a GET of url may be answered with
BodiesAt(h, pl, url) ==
    UNION { Bodies(h, pl, t) : t \in { u \in Tools : UrlOf(asset_name(pl, u)) = url } }

\* Response::content_length(): Option<u64>, << >> for None
content_length(h, body) == IF h.content_length THEN << Len(body) >> ELSE << >>

\* a total that ignores the Content-Length header
total_size_AssetSizeOnly(response_length, asset_size) == asset_size

\* downloader.rs:170: response.content_length().unwrap_or(asset.size)
total_size(response_length, asset_size) ==
    IF response_length # << >> THEN response_length[1] ELSE asset_size

\* the progress bar of download_asset; none outside download_asset
NoBar == [ live |-> FALSE, length |-> 0, position |-> 0, reports |-> 0 ]

\* downloader.rs:172: ProgressBar::new(total_size)
ProgressBar_new(len) ==
    [ live |-> TRUE, length |-> len, position |-> 0, reports |-> 0 ]

\* downloader.rs:191: pb.set_position(pos)
set_position(bar, pos) ==
    [ bar EXCEPT !.position = pos, !.reports = @ + 1 ]

\* a byte counter that counts chunks
AddChunk_CountsChunks(n, chunk) == n + 1

\* downloader.rs:190: downloaded += chunk.len() as u64
AddChunk(n, chunk) == n + Len(chunk)

(***************************************************************************)
(* The process environment BinaryRunner::which depends on: the entries of  *)
(* PATH, what each holds under the names of the tools, and whether the     *)
(* `which` and `where` utilities can be spawned.                           *)
(***************************************************************************)
PathDirs == << "/usr/local/bin", "/usr/bin" >>

\* what a directory holds under a name: nothing, a file that is not
\* executable, or an executable file
EntryKinds == { "absent", "file", "exec" }

Environs ==
    { [ path |-> << [ name |-> PathDirs[1], holds |-> h1 ],
                    [ name |-> PathDirs[2], holds |-> h2 ] >>,
        has_which |-> w, has_where |-> x ] :
        h1 \in [ Tools -> EntryKinds ], h2 \in [ Tools -> EntryKinds ],
        w \in BOOLEAN, x \in BOOLEAN }

\* an environment with the utilities and no tool on PATH
DefaultEnviron ==
    [ path |-> << [ name |-> PathDirs[1], holds |-> [ t \in Tools |-> "absent" ] ],
                  [ name |-> PathDirs[2], holds |-> [ t \in Tools |-> "absent" ] ] >>,
      has_which |-> TRUE, has_where |-> TRUE ]

\* the first entry of PATH, in order, holding an executable file called name:
\* Option<PathBuf>, << >> for None
FirstOnPath(path, name) ==
    LET hits == { i \in 1 .. Len(path) : path[i].holds[name] = "exec" }
    IN  IF hits = { } THEN << >>
        ELSE << PathJoin(path[CHOOSE i \in hits : \A j \in hits : i <= j].name,
                         name) >>

\* Command::new(utility).arg(name).output(): the utility cannot be spawned
\* (Err), or it ran and printed the first hit on PATH, with status 0 when
\* there was one
SearchUtility(available, path, name) ==
    IF ~available THEN [ spawned |-> FALSE, success |-> FALSE, stdout |-> << >> ]
    ELSE [ spawned |-> TRUE,
           success |-> FirstOnPath(path, name) # << >>,
           stdout |-> FirstOnPath(path, name) ]

\* runner.rs:123-130 and 135-147: the path an output yields, if any
PathFromOutput(out) ==
    IF out.spawned /\ out.success /\ out.stdout # << >> THEN out.stdout ELSE << >>

\* main before check_binaries has run: no path for either tool
NoAvail == [ paths |-> [ t \in Tools |-> << >> ], consulted |-> { },
            checked |-> FALSE ]

\* the number of items of the menu (menu.rs:36-42)
MenuLen == 5

\* menu.rs:36-42: the choices of the items, by index from 0
MenuItems == << "RunSB", "RunSDisk", "UpdateBinaries", "Settings", "Exit" >>

\* menu.rs:35-53: Menu::new selects item 0 (ListState::selected is an
\* Option, << >> for None).  Of the last Menu::run: whether enable_raw_mode
\* succeeded, the last key read, the result of run_loop and what run returned
\* ("none", "error" or a choice)
Menu_new == [ selected |-> << 0 >>, enabled |-> FALSE, key |-> "none",
              result |-> "none", returned |-> "none" ]

\* main outside its menu loop
NoMain == [ at |-> "none", rounds |-> 0, tool |-> "" ]

\* a BinaryRunner::which call: its argument and what it returned
NoLocated == [ called |-> FALSE, name |-> "", found |-> << >> ]

(***************************************************************************)
(* The cache directory as a file system: directory entries name inodes,    *)
(* open handles keep an inode alive after its entry is removed, and every  *)
(* handle has its own offset.                                              *)
(***************************************************************************)
InodeIds == 1 .. (2 * Cardinality(Tools) + Cardinality(Procs))

FileCreateMode == 420      \* 0o644: a file made by File::create
ExecMode == 493            \* 0o755

FreeInode == [ data |-> << >>, mode |-> 0 ]

NoFd == [ wfd |-> 0, woff |-> 0, rfd |-> 0, rpos |-> 0, remain |-> 0,
          bfd |-> 0, boff |-> 0,
          truncated |-> 0 ]   \* bytes File::create found in the archive file

Referenced(d, f) ==
    ( { d[path] : path \in DOMAIN d }
        \cup { f[p].wfd : p \in Procs }
        \cup { f[p].rfd : p \in Procs }
        \cup { f[p].bfd : p \in Procs } ) \ {0}

\* inodes that neither a directory entry nor a handle refers to are released
Collect(ino, d, f) ==
    [ i \in InodeIds |-> IF i \in Referenced(d, f) THEN ino[i] ELSE FreeInode ]

NewInode(d, f) ==
    CHOOSE i \in InodeIds :
        /\ i \notin Referenced(d, f)
        /\ \A j \in InodeIds : j < i => j \in Referenced(d, f)

\* write toks at offset off (0-based) of a file holding data
WriteAt(data, off, toks) ==
    LET padded == IF Len(data) < off
                  THEN data \o [ i \in 1 .. (off - Len(data)) |-> Dat(0) ]
                  ELSE data
    IN  SubSeq(padded, 1, off) \o toks
            \o SubSeq(padded, off + Len(toks) + 1, Len(padded))

\* a create that keeps what the file held
FileCreate_NoTruncate(ino, d, f, path) ==
    LET i == IF d[path] # 0 THEN d[path] ELSE NewInode(d, f)
    IN  [ ino EXCEPT ![i] = IF d[path] # 0
                            THEN @
                            ELSE [ data |-> << >>, mode |-> FileCreateMode ] ]

\* the inode File::create(path) leaves open: the truncated old one or a new one
CreatedInode(d, f, path) == IF d[path] # 0 THEN d[path] ELSE NewInode(d, f)

\* File::create(path): truncate the existing file or make an empty one
FileCreate(ino, d, f, path) ==
    LET i == CreatedInode(d, f, path)
    IN  [ ino EXCEPT ![i] = IF d[path] # 0
                            THEN [ @ EXCEPT !.data = << >> ]
                            ELSE [ data |-> << >>, mode |-> FileCreateMode ] ]

NoFile == [ data |-> << >>, mode |-> 0, present |-> FALSE ]

\* what a reader opening path sees
FileAt(ino, d, path) ==
    IF d[path] = 0 THEN NoFile
    ELSE [ data |-> ino[d[path]].data, mode |-> ino[d[path]].mode,
           present |-> TRUE ]

\* Path::exists
Exists(d, path) == d[path] # 0

\* st_mode of a directory: S_IFDIR | 0o755
DirMode == 16877

IsDir(ino, d, path) == d[path] # 0 /\ ino[d[path]].mode = DirMode

\* Path::is_file
IsFile(ino, d, path) == d[path] # 0 /\ ino[d[path]].mode # DirMode

\* an installed-test that asks for existence only
check_binary_exists_AnyEntry(ino, d, path) == Exists(d, path)

\* BinaryRunner::check_binary_exists
check_binary_exists(ino, d, path) == Exists(d, path) /\ IsFile(ino, d, path)

(***************************************************************************)
(* Initial state: a platform, an empty cache or one holding the binaries   *)
(* installed by an earlier run, and no call in progress.                   *)
(***************************************************************************)
InstalledMode(pl) == IF IsUnix(pl) THEN ExecMode ELSE FileCreateMode

InstalledFile(pl, v) ==
    [ data |-> Payload(v), mode |-> InstalledMode(pl), present |-> TRUE ]

NoResult == << "none", "" >>
Ok(path) == << "ok", path >>
Err(kind) == << "err", kind >>

NoNet == [ latest |-> 0, list |-> 0, asset |-> 0,
           latest_answer |-> NoAnswer, list_answer |-> NoAnswer ]

NoArgs == [ tool |-> "", force |-> FALSE ]

NoLaunch == [ tool |-> "", file |-> NoFile ]

\* std::process::ExitStatus: an exit code, or none when a signal ended the
\* child
SigintCode == 130

Exited(code) == [ ended |-> TRUE, has_code |-> TRUE, code |-> code ]
Signalled == [ ended |-> TRUE, has_code |-> FALSE, code |-> 0 ]
NoStatus == [ ended |-> FALSE, has_code |-> FALSE, code |-> 0 ]

ExitStatuses == { Exited(0), Exited(1), Exited(SigintCode), Signalled }

\* ExitStatus::success
StatusSuccess(st) == st.has_code /\ st.code = 0

\* what a run_interactive call did: the path it was given, whether the menu
\* was shown before it, its result, whether it called disable_raw_mode,
\* whether the child was started, the child's exit status and whether
\* tracing::warn! was called
NoRun == [ path |-> "", from_menu |-> FALSE, result |-> NoResult,
           term_calls |-> 0, spawned |-> FALSE, status |-> NoStatus,
           warned |-> FALSE ]

\* a verify_checksum call: its arguments and what it returned
NoVerify == [ path |-> "", expected |-> Sha256Hex(<< >>), outcome |-> "none" ]

EmptyDir(pl) == [ path \in CachePaths(pl) |-> 0 ]

OldDir(pl) ==
    [ path \in CachePaths(pl) |->
        IF path = binary_path("sb", pl) THEN 1
        ELSE IF path = binary_path("sdisk", pl) THEN 2
        ELSE 0 ]

InitCache ==
    /\ platform \in Platforms
    /\ \E old \in BOOLEAN :
        /\ dir = IF old THEN OldDir(platform) ELSE EmptyDir(platform)
        /\ inodes = [ i \in InodeIds |->
                        IF old /\ i \in {1, 2}
                        THEN [ data |-> Payload(1), mode |-> InstalledMode(platform) ]
                        ELSE FreeInode ]
        /\ good = [ t \in Tools |->
                        IF old THEN { InstalledFile(platform, 1) } ELSE { } ]
    /\ pc = [ p \in Procs |-> "idle" ]
    /\ args = [ p \in Procs |-> NoArgs ]
    /\ release = [ p \in Procs |-> NoRelease ]
    /\ asset = [ p \in Procs |-> NoAsset ]
    /\ stream = [ p \in Procs |-> << >> ]
    /\ fetched = [ p \in Procs |-> << >> ]
    /\ fd = [ p \in Procs |-> NoFd ]
    /\ downloaded = [ p \in Procs |-> 0 ]
    /\ result = [ p \in Procs |-> NoResult ]
    /\ net = [ p \in Procs |-> NoNet ]
    /\ snap = [ p \in Procs |-> NoFile ]
    /\ wrote = [ p \in Procs |-> FALSE ]
    /\ launched = [ p \in Procs |-> NoLaunch ]
    /\ raw_mode = FALSE
    /\ runres = [ p \in Procs |-> NoRun ]
    /\ verified = [ p \in Procs |-> NoVerify ]
    /\ pb = [ p \in Procs |-> NoBar ]
    /\ located = NoLocated
    /\ avail = NoAvail
    /\ menu = Menu_new

(***************************************************************************)
(* Downloader::download_binary, one action per step.                       *)
(***************************************************************************)
BinPath(p) == binary_path(args[p].tool, platform)

ArchPath(p) == archive_path_of(asset[p].name)

\* download_binary returns res: every handle of the call is closed
Return(p, res, ino, d) ==
    /\ pc' = [ pc EXCEPT ![p] = "idle" ]
    /\ result' = [ result EXCEPT ![p] = res ]
    /\ fd' = [ fd EXCEPT ![p] = NoFd ]
    /\ dir' = d
    /\ inodes' = Collect(ino, d, [ fd EXCEPT ![p] = NoFd ])
    /\ release' = [ release EXCEPT ![p] = NoRelease ]
    /\ asset' = [ asset EXCEPT ![p] = NoAsset ]
    /\ stream' = [ stream EXCEPT ![p] = << >> ]
    /\ downloaded' = [ downloaded EXCEPT ![p] = 0 ]
    /\ pb' = [ pb EXCEPT ![p] = NoBar ]
    /\ good' = IF res[1] = "ok" /\ pc[p] # "idle"
               THEN [ good EXCEPT ![args[p].tool] =
                        @ \cup { FileAt(ino, d, res[2]) } ]
               ELSE good

\* the call fails with an error of the given kind (the `?` operator)
Fail(p, kind) ==
    /\ Return(p, Err(kind), inodes, dir)
    /\ fetched' = [ fetched EXCEPT ![p] =
                        IF pc[p] \in { "create", "chunk" } THEN << >> ELSE @ ]
    /\ UNCHANGED << platform, args, net, calls, snap,
                    wrote, launched, raw_mode, runres, verified, config,
                    host, environ, located, MainState >>

\* the cache-hit test with the negation of `force` lost
CacheHit_ForceInverted(d, path, force) == Exists(d, path) /\ force

\* downloader.rs:121-126: the cache-hit test
CacheHit(d, path, force) == Exists(d, path) /\ ~force

download_binary(p, binary_name, force) ==
    /\ pc[p] = "idle"
    /\ calls[p] > 0
    /\ LET path == binary_path(binary_name, platform)
       IN  /\ args' = [ args EXCEPT ![p] = [ tool |-> binary_name, force |-> force ] ]
           /\ calls' = [ calls EXCEPT ![p] = @ - 1 ]
           /\ net' = [ net EXCEPT ![p] = NoNet ]
           /\ snap' = [ snap EXCEPT ![p] = FileAt(inodes, dir, path) ]
           /\ wrote' = [ wrote EXCEPT ![p] = FALSE ]
           /\ fetched' = [ fetched EXCEPT ![p] = << >> ]
           /\ IF CacheHit(dir, path, force)
              THEN /\ result' = [ result EXCEPT ![p] = Ok(path) ]
                   /\ pc' = pc
              ELSE /\ result' = [ result EXCEPT ![p] = NoResult ]
                   /\ pc' = [ pc EXCEPT ![p] = "get_latest" ]
    /\ runres' = [ runres EXCEPT ![p] = NoRun ]
    /\ UNCHANGED << platform, dir, inodes, release, asset, stream,
                    fd, downloaded, pb, good, launched, raw_mode, verified,
                    config, host, environ, located, MainState >>

\* what one step of a call leaves alone besides the variables it names
CallFrame == << platform, args, calls, snap, launched, raw_mode, runres,
               verified, config, host, environ, located, MainState >>

\* a fallback that asks the "latest" endpoint again
FallbackStep_RetryLatest == "get_latest"

\* downloader.rs:86-87: what follows a "latest" answer whose status is not a
\* success: the request to the list endpoint
FallbackStep == "get_list"

\* downloader.rs:80-85 and 103: the request to the "latest" endpoint
get_latest_release(p) ==
    /\ pc[p] = "get_latest"
    /\ \E a \in LatestAnswers(platform) :
          /\ net' = [ net EXCEPT ![p].latest = @ + 1, ![p].latest_answer = a ]
          /\ IF ~a.arrived
             THEN \* send() fails
                  /\ Return(p, Err("Network"), inodes, dir)
                  /\ UNCHANGED << fetched, wrote >>
             ELSE IF ~IsSuccess(a.status)
             THEN \* a status that is not a success: fall back to the list
                  /\ pc' = [ pc EXCEPT ![p] = FallbackStep ]
                  /\ UNCHANGED << dir, inodes, release, asset, stream, fetched,
                                  fd, downloaded, pb, result, wrote, good >>
             ELSE IF ~a.decodes
             THEN \* response.json() fails
                  /\ Return(p, Err("Network"), inodes, dir)
                  /\ UNCHANGED << fetched, wrote >>
             ELSE /\ release' = [ release EXCEPT ![p] = a.releases[1] ]
                  /\ pc' = [ pc EXCEPT ![p] = "resolve" ]
                  /\ UNCHANGED << dir, inodes, asset, stream, fetched, fd,
                                  downloaded, pb, result, wrote, good >>
    /\ UNCHANGED CallFrame

\* downloader.rs:86-101: the request to the list-all-releases endpoint; the
\* status of its answer is not read
get_all_releases(p) ==
    /\ pc[p] = "get_list"
    /\ \E a \in ListAnswers(platform) :
          /\ net' = [ net EXCEPT ![p].list = @ + 1, ![p].list_answer = a ]
          /\ IF ~a.arrived \/ ~a.decodes
             THEN \* send() fails, or json() meets no array of releases
                  /\ Return(p, Err("Network"), inodes, dir)
                  /\ UNCHANGED << fetched, wrote >>
             ELSE IF a.releases = << >>
             THEN /\ Return(p, Err("NoReleases"), inodes, dir)
                  /\ UNCHANGED << fetched, wrote >>
             ELSE /\ release' = [ release EXCEPT ![p] = FirstRelease(a.releases) ]
                  /\ pc' = [ pc EXCEPT ![p] = "resolve" ]
                  /\ UNCHANGED << dir, inodes, asset, stream, fetched, fd,
                                  downloaded, pb, result, wrote, good >>
    /\ UNCHANGED CallFrame

\* downloader.rs:131-135: select the asset named platform.asset_name(tool)
resolve_asset(p) ==
    /\ pc[p] = "resolve"
    /\ LET a == FindAsset(release[p].assets, asset_name(platform, args[p].tool))
       IN  IF a = NoAsset
           THEN Fail(p, "NoMatchingAsset")
           ELSE /\ asset' = [ asset EXCEPT ![p] = a ]
                /\ pc' = [ pc EXCEPT ![p] = "send" ]
                \* the answers were locals of get_latest_release
                /\ net' = [ net EXCEPT ![p].latest_answer = NoAnswer,
                                       ![p].list_answer = NoAnswer ]
                /\ UNCHANGED << dir, inodes, release, stream, fetched, fd,
                                downloaded, pb, result, wrote, good >>
                /\ UNCHANGED CallFrame

\* downloader.rs:164-177: GET the asset and make the progress bar; the status
\* of the answer (host.asset_status) is not read
download_asset_send(p) ==
    /\ pc[p] = "send"
    /\ net' = [ net EXCEPT ![p].asset = @ + 1 ]
    /\ \/ /\ Return(p, Err("Network"), inodes, dir)
          /\ UNCHANGED << fetched, wrote >>
       \/ /\ \E body \in BodiesAt(host, platform, asset[p].browser_download_url) :
                /\ stream' = [ stream EXCEPT ![p] = body ]
                /\ pb' = [ pb EXCEPT ![p] =
                            ProgressBar_new(total_size(content_length(host, body),
                                                       asset[p].size)) ]
          /\ pc' = [ pc EXCEPT ![p] = "create" ]
          /\ UNCHANGED << dir, inodes, release, asset, fetched, fd, downloaded,
                          result, wrote, good >>
    /\ UNCHANGED CallFrame

\* downloader.rs:179-182: File::create(&archive_path)
download_asset_create(p) ==
    /\ pc[p] = "create"
    /\ \/ Fail(p, "Io")
       \/ /\ inodes' = FileCreate(inodes, dir, fd, ArchPath(p))
          /\ dir' = [ dir EXCEPT ![ArchPath(p)] = CreatedInode(dir, fd, ArchPath(p)) ]
          /\ fd' = [ fd EXCEPT ![p].wfd = CreatedInode(dir, fd, ArchPath(p)),
                               ![p].woff = 0,
                               ![p].truncated =
                                    Len(FileAt(inodes, dir, ArchPath(p)).data) ]
          /\ downloaded' = [ downloaded EXCEPT ![p] = 0 ]
          /\ wrote' = [ wrote EXCEPT ![p] = TRUE ]
          /\ pc' = [ pc EXCEPT ![p] = "chunk" ]
          /\ UNCHANGED << release, asset, stream, fetched, result, net, good,
                          pb >>
          /\ UNCHANGED CallFrame

\* a loop that stops while one byte is still to come
StreamEnded_Early(s) == Len(s) <= 1

\* downloader.rs:185: stream.next() yields None
StreamEnded(s) == s = << >>

\* the next chunk of a body
NextChunk(body) ==
    SubSeq(body, 1, IF Len(body) < ChunkLen THEN Len(body) ELSE ChunkLen)

\* downloader.rs:185-191: one iteration of the chunk loop
download_asset_chunk(p) ==
    /\ pc[p] = "chunk"
    /\ ~StreamEnded(stream[p])
    /\ \/ Fail(p, "Network")       \* "Failed to download chunk"
       \/ Fail(p, "Io")            \* "Failed to write chunk"
       \/ LET chunk == NextChunk(stream[p])
          IN  /\ inodes' = [ inodes EXCEPT ![fd[p].wfd].data =
                                WriteAt(@, fd[p].woff, chunk) ]
              /\ fd' = [ fd EXCEPT ![p].woff = @ + Len(chunk) ]
              /\ downloaded' = [ downloaded EXCEPT ![p] = AddChunk(@, chunk) ]
              /\ pb' = [ pb EXCEPT ![p] = set_position(@, downloaded'[p]) ]
              /\ stream' = [ stream EXCEPT ![p] =
                                SubSeq(@, Len(chunk) + 1, Len(@)) ]
              /\ fetched' = [ fetched EXCEPT ![p] = @ \o chunk ]
              /\ UNCHANGED << dir, pc, release, asset, result, net, wrote, good >>
              /\ UNCHANGED CallFrame

\* downloader.rs:185 and 193-195: the stream ended; the archive handle is dropped
download_asset_finish(p) ==
    /\ pc[p] = "chunk"
    /\ StreamEnded(stream[p])
    /\ fd' = [ fd EXCEPT ![p].wfd = 0, ![p].woff = 0 ]
    /\ inodes' = Collect(inodes, dir, fd')
    /\ pc' = [ pc EXCEPT ![p] = "open" ]
    /\ UNCHANGED << dir, release, asset, stream, fetched, downloaded, pb, result,
                    net, wrote, good >>
    /\ UNCHANGED CallFrame

(***************************************************************************)
(* Downloader::extract_binary.                                             *)
(***************************************************************************)
\* downloader.rs:206-257: the arms of `match platform.archive_extension()`
ArchiveFormat(ext) ==
    IF ext = ".tar.gz" THEN "tar.gz"
    ELSE IF ext = ".zip" THEN "zip"
    ELSE "unsupported"

IsZip(pl) == ArchiveFormat(archive_extension(pl)) = "zip"

\* a base name that is the first component of the path
file_name_First(path) == IF path = << >> THEN << >> ELSE << path[1] >>

\* Path::file_name(): the last component of the path, << >> for None
file_name(path) == IF path = << >> THEN << >> ELSE << path[Len(path)] >>

\* downloader.rs:220-221 and 243-244: the entry's base name is one of names
NameMatches(path, names) ==
    file_name(path) # << >> /\ file_name(path)[1] \in names

\* ZipArchive::new: the central directory at the end of the file must be there
ZipReadable(data) == data # << >> /\ data[Len(data)][1] = "cd"

\* the entry at i holds all of its n bytes
EntryIntact(data, i, n) ==
    /\ i + n <= Len(data)
    /\ \A k \in (i + 1) .. (i + n) : data[k][1] = "dat"

RECURSIVE ScanEntries(_, _, _, _)
\* downloader.rs:216-229 and 242-253: walk the entries in order up to the first
\* whose file name is one of names; <<"found", position of its data, length>>
ScanEntries(data, i, names, zip) ==
    IF i > Len(data) THEN << "missing", 0, 0 >>
    ELSE IF zip /\ data[i][1] = "cd" THEN << "missing", 0, 0 >>
    ELSE IF data[i][1] # "hdr" THEN << "error", 0, 0 >>
    ELSE IF NameMatches(data[i][2], names) THEN << "found", i + 1, data[i][3] >>
    ELSE IF zip \/ EntryIntact(data, i, data[i][3])
         THEN ScanEntries(data, i + data[i][3] + 1, names, zip)
         ELSE << "error", 0, 0 >>

\* a zip arm that accepts the suffixed name only
MemberNames_SuffixedOnly(pl, binary_name) ==
    IF IsZip(pl)
    THEN { binary_name \o binary_extension(pl) }
    ELSE { binary_name }

\* the member names extract_binary accepts (downloader.rs:221 and 240-245)
MemberNames(pl, binary_name) ==
    IF IsZip(pl)
    THEN { binary_name \o binary_extension(pl), binary_name }
    ELSE { binary_name }

\* downloader.rs:211-214 and 236-238: open the archive
extract_binary_open(p) ==
    /\ pc[p] = "open"
    /\ IF ArchiveFormat(archive_extension(platform)) = "unsupported"
       THEN Fail(p, "UnsupportedArchive")
       ELSE IF ~Exists(dir, ArchPath(p))
       THEN Fail(p, "OpenArchive")
       ELSE IF IsZip(platform) /\ ~ZipReadable(inodes[dir[ArchPath(p)]].data)
       THEN Fail(p, "Archive")
       ELSE /\ fd' = [ fd EXCEPT ![p].rfd = dir[ArchPath(p)] ]
            /\ pc' = [ pc EXCEPT ![p] = "scan" ]
            /\ UNCHANGED << dir, inodes, release, asset, stream, fetched,
                            downloaded, pb, result, net, wrote, good >>
            /\ UNCHANGED CallFrame

\* downloader.rs:216-223 and 242-247: find the member, File::create(&binary_path)
extract_binary_scan(p) ==
    /\ pc[p] = "scan"
    /\ LET r == ScanEntries(inodes[fd[p].rfd].data, 1,
                            MemberNames(platform, args[p].tool), IsZip(platform))
           b == CreatedInode(dir, fd, BinPath(p))
       IN  \/ /\ r[1] = "error"
              /\ Fail(p, "Archive")
           \/ /\ r[1] = "missing"
              /\ Fail(p, "NotInArchive")
           \/ /\ r[1] = "found"
              /\ Fail(p, "Io")         \* "Failed to create binary file"
           \/ /\ r[1] = "found"
              /\ ~IsDir(inodes, dir, BinPath(p))   \* else File::create fails
              /\ inodes' = FileCreate(inodes, dir, fd, BinPath(p))
              /\ dir' = [ dir EXCEPT ![BinPath(p)] = b ]
              /\ fd' = [ fd EXCEPT ![p].bfd = b, ![p].boff = 0,
                                   ![p].rpos = r[2], ![p].remain = r[3] ]
              /\ wrote' = [ wrote EXCEPT ![p] = TRUE ]
              /\ pc' = [ pc EXCEPT ![p] = "copy" ]
              /\ UNCHANGED << release, asset, stream, fetched, downloaded, pb,
                              result, net, good >>
              /\ UNCHANGED CallFrame

\* downloader.rs:224-226 and 248-250: io::copy, one byte of the member per step
extract_binary_copy(p) ==
    /\ pc[p] = "copy"
    /\ fd[p].remain > 0
    /\ LET src == inodes[fd[p].rfd].data
           pos == fd[p].rpos
       IN  IF pos > Len(src) \/ src[pos][1] # "dat"
           THEN Fail(p, "Archive")
           ELSE \/ Fail(p, "Io")
                \/ /\ inodes' = [ inodes EXCEPT ![fd[p].bfd].data =
                                    WriteAt(@, fd[p].boff, << src[pos] >>) ]
                   /\ fd' = [ fd EXCEPT ![p].rpos = @ + 1, ![p].boff = @ + 1,
                                        ![p].remain = @ - 1 ]
                   /\ UNCHANGED << dir, pc, release, asset, stream, fetched,
                                   downloaded, pb, result, net, wrote, good >>
                   /\ UNCHANGED CallFrame

\* downloader.rs:226 and 250: io::copy is done, extract_binary returns Ok(())
extract_binary_return(p) ==
    /\ pc[p] = "copy"
    /\ fd[p].remain = 0
    /\ fd' = [ fd EXCEPT ![p] = NoFd ]
    /\ inodes' = Collect(inodes, dir, fd')
    /\ pc' = [ pc EXCEPT ![p] = "cleanup" ]
    /\ UNCHANGED << dir, release, asset, stream, fetched, downloaded, pb,
                    result, net, wrote, good >>
    /\ UNCHANGED CallFrame

\* fs::remove_file(path).ok(): remove the entry when there is one
RemoveFile(d, path) == [ d EXCEPT ![path] = 0 ]

\* downloader.rs:146-147: remove the archive; on Windows the call then returns
cleanup_archive(p) ==
    /\ pc[p] = "cleanup"
    /\ wrote' = [ wrote EXCEPT ![p] = TRUE ]
    /\ IF IsUnix(platform)
       THEN /\ dir' = RemoveFile(dir, ArchPath(p))
            /\ inodes' = Collect(inodes, dir', fd)
            /\ pc' = [ pc EXCEPT ![p] = "perms" ]
            /\ UNCHANGED << release, asset, stream, fd, downloaded, pb, result, good >>
       ELSE Return(p, Ok(BinPath(p)), inodes, RemoveFile(dir, ArchPath(p)))
    /\ UNCHANGED << fetched, net >>
    /\ UNCHANGED CallFrame

\* the permission step without its effect
ChmodExec_Skipped(ino, i) == ino

\* a permission step that makes the file executable for its owner only
ChmodExec_OwnerOnly(ino, i) == [ ino EXCEPT ![i].mode = 448 ]

\* downloader.rs:153-155: perms.set_mode(0o755); fs::set_permissions
ChmodExec(ino, i) == [ ino EXCEPT ![i].mode = ExecMode ]

\* downloader.rs:150-158: cfg(unix): set mode 0o755, then return the path
set_permissions(p) ==
    /\ pc[p] = "perms"
    /\ IF ~Exists(dir, BinPath(p))
       THEN Fail(p, "Io")
       ELSE \/ Fail(p, "Io")
            \/ /\ Return(p, Ok(BinPath(p)), ChmodExec(inodes, dir[BinPath(p)]), dir)
               /\ UNCHANGED << fetched, net, wrote >>
               /\ UNCHANGED CallFrame

(***************************************************************************)
(* Downloader::verify_checksum called on a file of the cache directory.    *)
(***************************************************************************)
\* the expected strings a caller may pass: digests of the published binaries
\* and of the empty file, in any letter case
ExpectedHexes ==
    { [ sha256 |-> d, case |-> c ] :
        d \in { Payload(v) : v \in Versions } \cup { << >> }, c \in HexCases }

\* downloader.rs:261-268
verify_checksum_call(p, path, expected) ==
    /\ pc[p] = "idle"
    /\ \E outcome \in
            IF ~Exists(dir, path)
            THEN { "io_error" }                       \* File::open fails
            ELSE { "io_error",                        \* io::copy fails
                   IF verify_checksum(FileAt(inodes, dir, path).data, expected)
                   THEN "true" ELSE "false" } :
          verified' = [ verified EXCEPT ![p] =
                          [ path |-> path, expected |-> expected,
                            outcome |-> outcome ] ]
    /\ UNCHANGED << platform, dir, inodes, pc, args, release, asset, stream,
                    fetched, fd, downloaded, pb, result, net, calls, snap, wrote,
                    good, launched, raw_mode, runres, config, host, environ,
                    located, MainState >>

(***************************************************************************)
(* The terminal and Menu::run (menu.rs:60-75), called by the loop of main  *)
(* (main.rs:109-115).                                                      *)
(***************************************************************************)
\* crossterm::terminal::disable_raw_mode: the outcomes of one call
disable_raw_mode(raw) ==
    IF raw
    THEN { [ ok |-> TRUE, raw |-> FALSE ], [ ok |-> FALSE, raw |-> TRUE ] }
    ELSE { [ ok |-> TRUE, raw |-> FALSE ] }

\* a menu that goes on after a failed disable_raw_mode
AfterMenuDisable_Ignored(ok) == "idle"

\* menu.rs:70 and main.rs:115: `disable_raw_mode()?` and `menu.run().await?`:
\* main goes on only when the terminal left raw mode
AfterMenuDisable(ok) == IF ok THEN "idle" ELSE "exited"

\* what the runner and the menu leave alone
DownloadState ==
    << platform, dir, inodes, args, release, asset, stream, fetched, fd,
       downloaded, result, net, calls, snap, wrote, good, verified, config,
       host, pb, environ, located, avail, main >>

\* menu.rs:61-66: enable raw mode and enter the alternate screen
menu_run(p) ==
    /\ pc[p] = "idle"
    /\ \/ \* enable_raw_mode fails: run returns the error
          /\ raw_mode' = raw_mode
          /\ menu' = [ menu EXCEPT !.enabled = FALSE, !.key = "none",
                                   !.result = "none", !.returned = "error" ]
          /\ pc' = [ pc EXCEPT ![p] = "exited" ]
       \/ /\ raw_mode' = TRUE
          /\ \/ /\ pc' = [ pc EXCEPT ![p] = "menu" ]
                /\ menu' = [ menu EXCEPT !.enabled = TRUE, !.key = "none",
                                         !.result = "none", !.returned = "none" ]
             \/ \* EnterAlternateScreen or Terminal::new fails: run returns
                \* the error, and main returns it
                /\ pc' = [ pc EXCEPT ![p] = "exited" ]
                /\ menu' = [ menu EXCEPT !.enabled = TRUE, !.key = "none",
                                         !.result = "none", !.returned = "error" ]
    /\ runres' = [ runres EXCEPT ![p] = [ NoRun EXCEPT !.from_menu = TRUE ] ]
    /\ UNCHANGED << DownloadState, launched >>

\* the key presses run_loop tells apart (menu.rs:86-98)
Keys == { "Up", "Down", "Enter", "Quit", "Other" }

\* a next that does not wrap
Menu_next_NoWrap(sel) == IF sel = << >> THEN << 0 >> ELSE << sel[1] + 1 >>

\* menu.rs:205-217: Menu::next
Menu_next(sel) ==
    IF sel = << >> THEN << 0 >>
    ELSE IF sel[1] >= MenuLen - 1 THEN << 0 >>
    ELSE << sel[1] + 1 >>

\* menu.rs:219-231: Menu::previous
Menu_previous(sel) ==
    IF sel = << >> THEN << 0 >>
    ELSE IF sel[1] = 0 THEN << MenuLen - 1 >>
    ELSE << sel[1] - 1 >>

\* menu.rs:81-101: one iteration of run_loop: draw, read an event, act on it
menu_key(p) ==
    /\ pc[p] = "menu"
    /\ menu.result = "none"
    /\ \/ \* terminal.draw or event::read fails
          menu' = [ menu EXCEPT !.key = "none", !.result = "error" ]
       \/ \E k \in Keys :
            menu' = [ menu EXCEPT
                        !.key = k,
                        !.selected = IF k = "Up" THEN Menu_previous(@)
                                     ELSE IF k = "Down" THEN Menu_next(@)
                                     ELSE @,
                        !.result = IF k = "Enter" /\ menu.selected # << >>
                                   THEN MenuItems[menu.selected[1] + 1]
                                   ELSE IF k = "Quit" THEN "Exit"
                                   ELSE "none" ]
    /\ UNCHANGED << DownloadState, launched, raw_mode, runres, pc >>

\* menu.rs:68-74: run_loop ended (a choice or an error): leave raw mode and
\* the alternate screen, return run_loop's result; main.rs:115 and 152-155:
\* main returns on an error and on Exit
menu_return(p) ==
    /\ pc[p] = "menu"
    /\ menu.result # "none"
    /\ \E o \in disable_raw_mode(raw_mode), left \in BOOLEAN :
          LET ret == IF o.ok /\ left THEN menu.result ELSE "error"
          IN  /\ raw_mode' = o.raw
              /\ menu' = [ menu EXCEPT !.key = "none", !.returned = ret ]
              /\ pc' = [ pc EXCEPT ![p] =
                            IF ret = "Exit" THEN "exited"
                            ELSE AfterMenuDisable(o.ok /\ ret # "error") ]
    /\ UNCHANGED << DownloadState, launched, runres >>

(***************************************************************************)
(* BinaryRunner::run_interactive on a cache path (main.rs:119-140, 230-245)*)
(***************************************************************************)
\* an existence test that lets every path through
RunnerPathExists_Always(d, path) == TRUE

\* runner.rs:70: binary_path.exists()
RunnerPathExists(d, path) == Exists(d, path)

\* a warning for every code but 0
ShouldWarn_SigintToo(st) == ~StatusSuccess(st) /\ st.has_code /\ st.code # 0

\* runner.rs:106-112: when tracing::warn! reports the exit code
ShouldWarn(st) ==
    /\ ~StatusSuccess(st)
    /\ st.has_code
    /\ st.code # 0 /\ st.code # SigintCode

\* runner.rs:69-104: up to the start of the child
run_interactive(p, tool) ==
    /\ pc[p] = "idle"
    /\ LET path == binary_path(tool, platform)
           call == [ NoRun EXCEPT !.path = path,
                                  !.from_menu = runres[p].from_menu ]
       IN  IF ~RunnerPathExists(dir, path)
           THEN /\ runres' = [ runres EXCEPT ![p] =
                                [ call EXCEPT !.result = Err("BinaryNotFound") ] ]
                /\ UNCHANGED << pc, launched, raw_mode >>
           ELSE \E o \in disable_raw_mode(raw_mode) :
                  /\ raw_mode' = o.raw       \* `.ok()`: o.ok is not read
                  /\ \/ \* Command::status() could not start the child
                        /\ runres' = [ runres EXCEPT ![p] =
                                [ call EXCEPT !.result = Err("ExecutionFailed"),
                                              !.term_calls = 1 ] ]
                        /\ UNCHANGED << pc, launched >>
                     \/ /\ Exists(dir, path)
                        /\ ~IsDir(inodes, dir, path)   \* else exec fails
                        /\ pc' = [ pc EXCEPT ![p] = "child" ]
                        /\ launched' = [ launched EXCEPT ![p] =
                                [ tool |-> tool,
                                  file |-> FileAt(inodes, dir, path) ] ]
                        /\ runres' = [ runres EXCEPT ![p] =
                                [ call EXCEPT !.term_calls = 1,
                                              !.spawned = TRUE ] ]
    /\ UNCHANGED << DownloadState, menu >>

\* runner.rs:82-114: the child ended with some status
child_exit(p) ==
    /\ pc[p] = "child"
    /\ pc' = [ pc EXCEPT ![p] = "idle" ]
    /\ launched' = [ launched EXCEPT ![p] = NoLaunch ]
    /\ \E st \in ExitStatuses :
          runres' = [ runres EXCEPT ![p] =
                        [ @ EXCEPT !.result = Ok(""),
                                   !.status = st,
                                   !.warned = ShouldWarn(st) ] ]
    /\ UNCHANGED << DownloadState, raw_mode, menu >>

(***************************************************************************)
(* BinaryRunner::which (runner.rs:121-151), called by check_binaries       *)
(* (main.rs:171-186) when the configuration prefers system binaries.       *)
(***************************************************************************)
\* what which(binary_name) returns in environment env on platform pl
which_result(env, pl, binary_name) ==
    LET by_which == PathFromOutput(SearchUtility(env.has_which, env.path,
                                                 binary_name))
        \* cfg(windows): the `where` utility
        by_where == IF IsUnix(pl) THEN << >>
                    ELSE PathFromOutput(SearchUtility(env.has_where, env.path,
                                                      binary_name))
    IN  IF by_which # << >> THEN by_which ELSE by_where

which(p, binary_name) ==
    /\ pc[p] = "idle"
    /\ located' = [ called |-> TRUE, name |-> binary_name,
                    found |-> which_result(environ, platform, binary_name) ]
    /\ UNCHANGED << platform, dir, inodes, pc, args, release, asset, stream,
                    fetched, fd, downloaded, result, net, calls, snap, wrote,
                    good, launched, raw_mode, runres, verified, config, host,
                    pb, environ, MainState >>

(***************************************************************************)
(* check_binaries (main.rs:162-194): for each tool the PATH result when    *)
(* the configuration prefers system binaries, else the cache path when a   *)
(* regular file is there.                                                  *)
(***************************************************************************)
\* a check that looks at the cache entry before PATH
tool_path_CacheFirst(cfg, env, pl, ino, d, t) ==
    IF check_binary_exists(ino, d, binary_path(t, pl))
    THEN << binary_path(t, pl) >>
    ELSE IF cfg.behavior.use_system_binaries THEN which_result(env, pl, t)
    ELSE << >>

\* main.rs:171-180 (sb) and 182-191 (sdisk): Option<PathBuf>, << >> for None
tool_path(cfg, env, pl, ino, d, t) ==
    LET sys == IF cfg.behavior.use_system_binaries
               THEN which_result(env, pl, t) ELSE << >>
    IN  IF sys # << >> THEN sys
        ELSE IF check_binary_exists(ino, d, binary_path(t, pl))
        THEN << binary_path(t, pl) >>
        ELSE << >>

check_binaries(p) ==
    /\ pc[p] = "idle"
    /\ avail' = [ paths |-> [ t \in Tools |->
                                tool_path(config, environ, platform, inodes, dir, t) ],
                  consulted |-> IF config.behavior.use_system_binaries
                                THEN Tools ELSE { },
                  checked |-> TRUE ]
    /\ located' = IF config.behavior.use_system_binaries
                  THEN [ called |-> TRUE, name |-> "sdisk",
                         found |-> which_result(environ, platform, "sdisk") ]
                  ELSE located
    /\ UNCHANGED << platform, dir, inodes, pc, args, release, asset, stream,
                    fetched, fd, downloaded, result, net, calls, snap, wrote,
                    good, launched, raw_mode, runres, verified, config, host,
                    pb, environ, menu, main >>

(***************************************************************************)
(* The menu loop of main (main.rs:106-159).  main.at is the position of    *)
(* main: "check" at the top of an iteration (check_binaries, then          *)
(* menu.run), "acquire", "launch", "update", "prompt" inside the arm of    *)
(* the choice, "done" after Ok(()) and "failed" after an error.            *)
(***************************************************************************)
\* an update that refreshes sdisk first
UpdateOrder_SdiskFirst == << "sdisk", "sb" >>

\* main.rs:196-204: update_binaries refreshes sb, then sdisk
UpdateOrder == << "sb", "sdisk" >>

\* an arm that goes on after an error
AfterAction_Ignored(ok, next) == next

\* the `?` after every call of the loop body: an error ends main
AfterAction(ok, next) == IF ok THEN next ELSE "failed"

\* main moves to position at with tool t and c download_binary calls to
\* make; fresh: the iteration ended, its locals (sb_path, sdisk_path,
\* choice) are dropped
MainGoes(p, at, t, c, fresh) ==
    /\ main' = [ at |-> at, tool |-> t,
                 rounds |-> IF fresh THEN main.rounds + 1 ELSE main.rounds ]
    /\ calls' = [ calls EXCEPT ![p] = c ]
    /\ pc' = [ pc EXCEPT ![p] = IF at \in { "done", "failed" }
                                THEN "exited" ELSE "idle" ]
    /\ avail' = IF fresh THEN NoAvail ELSE avail
    /\ menu' = IF fresh THEN [ menu EXCEPT !.returned = "none" ] ELSE menu
    /\ UNCHANGED << platform, dir, inodes, args, release, asset, stream,
                    fetched, fd, downloaded, result, net, snap, wrote, good,
                    launched, raw_mode, runres, verified, config, host, pb,
                    environ, located >>

\* main.rs:115-155: `menu.run().await?` and the match on the choice
main_dispatch(p) ==
    /\ main.at = "check"
    /\ menu.returned # "none"
    /\ pc[p] \in { "idle", "exited" }
    /\ LET choice == menu.returned
           t == IF choice = "RunSB" THEN "sb" ELSE "sdisk"
       IN  IF choice = "error" THEN MainGoes(p, "failed", "", 0, FALSE)
           ELSE IF choice = "Exit" THEN MainGoes(p, "done", "", 0, FALSE)
           ELSE IF choice \in { "RunSB", "RunSDisk" }
           THEN IF avail.paths[t] # << >>
                THEN MainGoes(p, "launch", t, 0, FALSE)
                ELSE MainGoes(p, "acquire", t, 1, FALSE)
           ELSE IF choice = "UpdateBinaries"
           THEN MainGoes(p, "update", UpdateOrder[1], 1, FALSE)
           ELSE MainGoes(p, "prompt", "", 0, FALSE)

\* main.rs:124-127, 136-139 and 198-201: a download_binary call of the arm
\* returned
main_acquired(p) ==
    /\ main.at \in { "acquire", "update" }
    /\ pc[p] = "idle"
    /\ calls[p] = 0
    /\ LET ok == result[p][1] = "ok"
       IN  IF main.at = "acquire"
           THEN MainGoes(p, AfterAction(ok, "launch"), main.tool, 0, FALSE)
           ELSE IF main.tool = UpdateOrder[1]
           THEN LET at == AfterAction(ok, "update")
                IN  MainGoes(p, at, UpdateOrder[2],
                             IF at = "update" THEN 1 ELSE 0, FALSE)
           ELSE MainGoes(p, AfterAction(ok, "prompt"), "", 0, FALSE)

\* main.rs:121, 127, 133, 139: `runner.run_interactive(&path, vec![])?`
\* returned
main_launched(p) ==
    /\ main.at = "launch"
    /\ pc[p] = "idle"
    /\ runres[p].result # NoResult
    /\ MainGoes(p, AfterAction(runres[p].result[1] = "ok", "check"), "", 0,
                runres[p].result[1] = "ok")

\* main.rs:146-147 and 253-268: the arm waits for Enter (read_line), or
\* show_settings fails before that
main_prompt(p) ==
    /\ main.at = "prompt"
    /\ \E ok \in BOOLEAN :
          MainGoes(p, AfterAction(ok, "check"), "", 0, ok)

(***************************************************************************)
(* Specifications: Spec is one caller making MaxCalls download_binary calls *)
(* in sequence, SpecConc two flows (two acquisitions, or two instances of  *)
(* the program) that share the cache directory, SpecRun the loop of main   *)
(* (menu, one acquisition, launches), SpecVerify calls of verify_checksum, *)
(* SpecWhich calls of BinaryRunner::which under every environment,         *)
(* SpecExtract one acquisition from a host serving many-entry archives,   *)
(* SpecCheck check_binaries over cache entries of every kind, SpecMain the *)
(* menu loop of main with its order of steps.                              *)
(***************************************************************************)
\* the steps of a download_binary call that did not end as a cache hit
Pipeline(p) ==
    \/ get_latest_release(p)
    \/ get_all_releases(p)
    \/ resolve_asset(p)
    \/ download_asset_send(p)
    \/ download_asset_create(p)
    \/ download_asset_chunk(p)
    \/ download_asset_finish(p)
    \/ extract_binary_open(p)
    \/ extract_binary_scan(p)
    \/ extract_binary_copy(p)
    \/ extract_binary_return(p)
    \/ cleanup_archive(p)
    \/ set_permissions(p)

Launch(p) ==
    \/ \E t \in Tools : run_interactive(p, t)
    \/ child_exit(p)

MenuLoop(p) == menu_run(p) \/ menu_key(p) \/ menu_return(p)

\* one flow, MaxCalls acquisitions long, under either configuration
Init ==
    /\ InitCache
    /\ config \in Configs
    /\ host \in { PlainHost(l) : l \in BOOLEAN }
    /\ environ = DefaultEnviron
    /\ main = NoMain
    /\ calls = [ p \in Procs |-> IF p \in MainFlow THEN MaxCalls ELSE 0 ]

Next ==
    \E p \in MainFlow :
        \/ \E t \in Tools, f \in BOOLEAN : download_binary(p, t, f)
        \/ Pipeline(p)

Spec == Init /\ [][Next]_vars

\* Spec with every request answered or failed and every stream ended in the
\* end: a call that has started goes on taking steps
SpecLive == Spec /\ \A p \in MainFlow : WF_vars(Pipeline(p))

\* main.rs:92-157: the menu, the acquisition of a tool and its launches
InitRun ==
    /\ InitCache
    /\ config = DefaultConfig
    /\ host = PlainHost(TRUE)
    /\ environ = DefaultEnviron
    /\ main = NoMain
    /\ calls = [ p \in Procs |-> IF p \in MainFlow THEN 1 ELSE 0 ]

NextRun ==
    \E p \in MainFlow :
        \/ \E t \in Tools, f \in BOOLEAN : download_binary(p, t, f)
        \/ Pipeline(p)
        \/ Launch(p)
        \/ MenuLoop(p)

SpecRun == InitRun /\ [][NextRun]_vars

\* verify_checksum on the files of the cache directory
InitVerify ==
    /\ InitCache
    /\ config = DefaultConfig
    /\ host = PlainHost(TRUE)
    /\ environ = DefaultEnviron
    /\ main = NoMain
    /\ calls = [ p \in Procs |-> 0 ]

NextVerify ==
    \E p \in MainFlow, path \in CachePaths(platform), expected \in ExpectedHexes :
        verify_checksum_call(p, path, expected)

SpecVerify == InitVerify /\ [][NextVerify]_vars

\* which on every environment
InitWhich ==
    /\ InitCache
    /\ config = DefaultConfig
    /\ host = PlainHost(TRUE)
    /\ environ \in Environs
    /\ main = NoMain
    /\ calls = [ p \in Procs |-> 0 ]

NextWhich == \E p \in MainFlow, t \in Tools : which(p, t)

SpecWhich == InitWhich /\ [][NextWhich]_vars

\* one acquisition from a host that serves archives of several entries
InitExtract ==
    /\ InitCache
    /\ config = DefaultConfig
    \* the status of the asset response is 200 or an error status
    /\ host \in { [ RichHost EXCEPT !.asset_status = st ] : st \in Statuses }
    /\ environ = DefaultEnviron
    /\ main = NoMain
    /\ calls = [ p \in Procs |-> IF p \in MainFlow THEN 1 ELSE 0 ]

SpecExtract == InitExtract /\ [][Next]_vars

\* a cache directory whose final paths hold nothing, an installed binary or
\* a directory made by someone else
EntryStates == { "absent", "installed", "directory" }

EntryInode(state, pl) ==
    IF state = "installed"
    THEN [ data |-> Payload(1), mode |-> InstalledMode(pl) ]
    ELSE IF state = "directory" THEN [ data |-> << >>, mode |-> DirMode ]
    ELSE FreeInode

\* environments with sb on PATH or not, and with or without the utilities
CheckEnvirons ==
    { e \in Environs :
        /\ e.path[2] = DefaultEnviron.path[2]
        /\ e.path[1].holds["sdisk"] = "absent"
        /\ e.path[1].holds["sb"] \in { "absent", "exec" }
        /\ e.has_where = e.has_which }

\* check_binaries and unforced acquisitions over such cache directories
InitCheck ==
    /\ platform \in Platforms
    /\ \E sb \in EntryStates, sdisk \in EntryStates :
        /\ dir = [ path \in CachePaths(platform) |->
                    IF path = binary_path("sb", platform) /\ sb # "absent" THEN 1
                    ELSE IF path = binary_path("sdisk", platform)
                            /\ sdisk # "absent" THEN 2
                    ELSE 0 ]
        /\ inodes = [ i \in InodeIds |->
                        IF i = 1 THEN EntryInode(sb, platform)
                        ELSE IF i = 2 THEN EntryInode(sdisk, platform)
                        ELSE FreeInode ]
        /\ good = [ t \in Tools |->
                     IF (IF t = "sb" THEN sb ELSE sdisk) = "installed"
                     THEN { InstalledFile(platform, 1) } ELSE { } ]
    /\ pc = [ p \in Procs |-> "idle" ]
    /\ args = [ p \in Procs |-> NoArgs ]
    /\ release = [ p \in Procs |-> NoRelease ]
    /\ asset = [ p \in Procs |-> NoAsset ]
    /\ stream = [ p \in Procs |-> << >> ]
    /\ fetched = [ p \in Procs |-> << >> ]
    /\ fd = [ p \in Procs |-> NoFd ]
    /\ downloaded = [ p \in Procs |-> 0 ]
    /\ result = [ p \in Procs |-> NoResult ]
    /\ net = [ p \in Procs |-> NoNet ]
    /\ snap = [ p \in Procs |-> NoFile ]
    /\ wrote = [ p \in Procs |-> FALSE ]
    /\ launched = [ p \in Procs |-> NoLaunch ]
    /\ raw_mode = FALSE
    /\ runres = [ p \in Procs |-> NoRun ]
    /\ verified = [ p \in Procs |-> NoVerify ]
    /\ pb = [ p \in Procs |-> NoBar ]
    /\ located = NoLocated
    /\ avail = NoAvail
    /\ menu = Menu_new
    /\ main = NoMain
    /\ config \in { DefaultConfig, SystemConfig }
    /\ host = PlainHost(TRUE)
    /\ environ \in CheckEnvirons
    /\ calls = [ p \in Procs |-> IF p \in MainFlow THEN 1 ELSE 0 ]

NextCheck ==
    \E p \in MainFlow :
        \/ check_binaries(p)
        \/ \E t \in Tools : download_binary(p, t, FALSE)
        \/ Pipeline(p)

SpecCheck == InitCheck /\ [][NextCheck]_vars

\* main.rs:106-159: MaxRounds iterations of the menu loop, cache paths only
InitMain ==
    /\ InitCache
    /\ config = DefaultConfig
    /\ host = PlainHost(TRUE)
    /\ environ = DefaultEnviron
    /\ main = [ NoMain EXCEPT !.at = "check" ]
    /\ calls = [ p \in Procs |-> 0 ]

NextMain ==
    \E p \in MainFlow :
        \/ /\ main.at = "check" /\ ~avail.checked /\ main.rounds < MaxRounds
           /\ check_binaries(p)
        \/ /\ main.at = "check" /\ avail.checked /\ menu.returned = "none"
           /\ menu_run(p)
        \/ menu_key(p)
        \/ menu_return(p)
        \/ main_dispatch(p)
        \/ /\ main.at \in { "acquire", "update" }
           /\ download_binary(p, main.tool, main.at = "update")
        \/ Pipeline(p)
        \/ main_acquired(p)
        \/ /\ main.at = "launch" /\ runres[p].path = ""
           /\ run_interactive(p, main.tool)
        \/ child_exit(p)
        \/ main_launched(p)
        \/ main_prompt(p)

SpecMain == InitMain /\ [][NextMain]_vars

\* two simultaneous forced refreshes, one download_binary call each
InitConc ==
    /\ InitCache
    /\ config = DefaultConfig
    /\ host = PlainHost(TRUE)
    /\ environ = DefaultEnviron
    /\ main = NoMain
    /\ calls = [ p \in Procs |-> 1 ]

NextConc ==
    \E p \in Procs :
        \/ \E t \in Tools : download_binary(p, t, TRUE)
        \/ Pipeline(p)

SpecConc == InitConc /\ [][NextConc]_vars

(***************************************************************************)
(* Properties.                                                             *)
(***************************************************************************)
\* the positions of a flow outside download_binary
AtRest == { "idle", "child", "menu", "exited" }

\* flow p is at rest and its last download_binary call has returned
Returned(p) == pc[p] \in AtRest /\ result[p] # NoResult

Succeeded(p) == Returned(p) /\ result[p][1] = "ok"

Failed(p) == Returned(p) /\ result[p][1] = "err"

\* the last call of p found a file at the final cache path and was not forced
WasCacheHit(p) == args[p].tool \in Tools /\ ~args[p].force /\ snap[p].present

FinalFile(p) == FileAt(inodes, dir, BinPath(p))

\* C1: a download_binary call with force = false that finds a file at the
\* final cache path returns that path, issues no request to the release host
\* (no release lookup, no asset GET) and changes nothing in the cache
\* directory; no step of the pipeline is ever taken by such a call.
C1_CacheHitIsLocal ==
    \A p \in Procs :
        WasCacheHit(p) =>
            /\ pc[p] \in AtRest
            /\ result[p] = Ok(binary_path(args[p].tool, platform))
            /\ net[p] = NoNet
            /\ ~wrote[p]
            /\ FinalFile(p) = snap[p]

\* C1 witness: the second call of a flow was a cache hit
C1_Witness ==
    \E p \in MainFlow :
        /\ calls[p] = MaxCalls - 2
        /\ pc[p] = "idle"
        /\ WasCacheHit(p)
        /\ result[p] = Ok(BinPath(p))

\* C2: when download_binary returns an error, the file at the final cache
\* path is exactly what it was when the call began.
C2_FailureKeepsFinalPath ==
    \A p \in MainFlow : Failed(p) => FinalFile(p) = snap[p]

\* C3: the file a cache hit returns, and the file run_interactive executes
\* from the cache, is the complete output of an acquisition that succeeded.
C3_OnlyInstalledFilesRun ==
    \A p \in MainFlow :
        /\ pc[p] = "child" => launched[p].file \in good[launched[p].tool]
        /\ (Returned(p) /\ WasCacheHit(p)) => snap[p] \in good[args[p].tool]

\* the transient archive of the tool p asked for
ToolArchivePath(p) == archive_path_of(asset_name(platform, args[p].tool))

\* the checksum a caller holds when it expects version 1 of the asset
SuppliedChecksum(pl, tool) == Sha256Hex(GoodArchive(pl, tool, 1))

ChecksumMatches(p) ==
    verify_checksum(fetched[p], SuppliedChecksum(platform, args[p].tool))

\* C4: with an expected checksum supplied, extraction never starts on an
\* asset whose digest differs from it; the call then fails with
\* ChecksumMismatch, the final cache path is what it was and no transient
\* archive is left in the cache directory.
C4_ChecksumMismatchAborts ==
    \A p \in MainFlow :
        /\ pc[p] \in { "open", "scan", "copy", "cleanup", "perms" }
              => ChecksumMatches(p)
        /\ (Returned(p) /\ fetched[p] # << >> /\ ~ChecksumMatches(p)) =>
              /\ result[p] = Err("ChecksumMismatch")
              /\ FinalFile(p) = snap[p]
              /\ ~Exists(dir, ToolArchivePath(p))

C6_ReaderSeesOldOrNew ==
    \A p \in MainFlow :
        ( /\ pc[p] \notin AtRest
          /\ args[p].force
          /\ snap[p] \in good[args[p].tool] )
        => FinalFile(p).data \in { snap[p].data } \cup { Payload(v) : v \in Versions }

\* the call of p met a well-formed archive and no file system fault
Undisturbed(p) ==
    /\ \E v \in Versions : fetched[p] = GoodArchive(platform, args[p].tool, v)
    /\ result[p] # Err("Io")

\* the member bytes of the archive p received
FetchedPayload(p) ==
    { Payload(v) : v \in { w \in Versions :
                            fetched[p] = GoodArchive(platform, args[p].tool, w) } }

\* C7: two simultaneous forced refreshes of one tool that meet no fault both
\* return Ok, and the final cache path then holds the complete binary of one
\* of them.
C7_ConcurrentRefreshesSucceed ==
    \A p, q \in Procs :
        ( /\ p # q
          /\ Returned(p) /\ Returned(q)
          /\ args[p].tool = args[q].tool
          /\ args[p].force /\ args[q].force
          /\ Undisturbed(p) /\ Undisturbed(q) )
        => /\ result[p][1] = "ok"
           /\ result[q][1] = "ok"
           /\ FinalFile(p).data \in FetchedPayload(p) \cup FetchedPayload(q)

\* C8: no two acquisitions write the same temporary file, and no acquisition
\* ever holds the final cache path open for writing (it is changed by a
\* rename only).
C8_UniqueTempRenameOnly ==
    /\ \A p, q \in Procs :
          (p # q /\ fd[p].wfd # 0) => fd[p].wfd # fd[q].wfd
    /\ \A p \in Procs : fd[p].bfd = 0

\* what flow p keeps between its steps: it changes in every step p takes
LocalState(p) ==
    << pc[p], args[p], fd[p], stream[p], result[p], net[p], calls[p] >>

\* the cache entry and the transient archive of tool t
ToolFiles(t) ==
    << FileAt(inodes, dir, binary_path(t, platform)),
       FileAt(inodes, dir, archive_path_of(asset_name(platform, t))) >>

DistinctToolPaths ==
    \A t, u \in Tools :
        t # u =>
            { binary_path(t, platform), archive_path_of(asset_name(platform, t)) }
                \cap { binary_path(u, platform),
                       archive_path_of(asset_name(platform, u)) } = { }

\* C9: distinct tool names have distinct cache paths, and a step of an
\* acquisition of one tool never creates, changes or removes the cache entry
\* or the transient archive of another tool.
C9_ToolsAreIsolated ==
    /\ []DistinctToolPaths
    /\ [][ \A p \in Procs :
              LocalState(p)' # LocalState(p) =>
                  \A t \in Tools \ { args'[p].tool } :
                      ToolFiles(t)' = ToolFiles(t) ]_vars

\* C9 witness: two acquisitions of different tools are both writing
C9_Witness ==
    \E p, q \in Procs :
        /\ args[p].tool # args[q].tool
        /\ pc[p] = "copy" /\ fd[p].boff > 0
        /\ pc[q] = "chunk" /\ fd[q].woff > 0

AssetNames(r) == { r.assets[i].name : i \in 1 .. Len(r.assets) }

\* the steps of download_binary that follow asset resolution
AfterResolve == { "send", "create", "chunk", "open", "scan", "copy",
                  "cleanup", "perms" }

\* C11: the asset a call goes on with is the asset of the release named
\* exactly platform.asset_name(tool); when the release has no asset of that
\* name the call fails with NoMatchingAsset, and a call that failed so issued
\* no asset download request and wrote nothing to the cache directory.
C11_ResolveByExactName ==
    /\ [] ( \A p \in Procs :
              /\ pc[p] \in AfterResolve =>
                    /\ asset[p].name = asset_name(platform, args[p].tool)
                    /\ \E i \in 1 .. Len(release[p].assets) :
                          release[p].assets[i] = asset[p]
              /\ (Returned(p) /\ result[p] = Err("NoMatchingAsset")) =>
                    /\ net[p].asset = 0
                    /\ ~wrote[p]
                    /\ FinalFile(p) = snap[p] )
    /\ [][ \A p \in Procs :
              ( /\ pc[p] = "resolve"
                /\ pc'[p] # "resolve"
                /\ asset_name(platform, args[p].tool) \notin AssetNames(release[p]) )
              => /\ pc'[p] = "idle"
                 /\ result'[p] = Err("NoMatchingAsset") ]_vars

\* C11 witness: a call on an empty cache failed with NoMatchingAsset after
\* one release lookup
C11_Witness ==
    \E p \in MainFlow :
        /\ Returned(p)
        /\ result[p] = Err("NoMatchingAsset")
        /\ net[p].latest = 1
        /\ ~snap[p].present

\* get_latest_release has returned to download_binary: with a release, or
\* with the error download_binary then returned
LookupSucceeded(p) == pc[p] = "resolve"

LookupFailed(p) ==
    /\ Returned(p)
    /\ net[p].latest = 1
    /\ net[p].asset = 0
    /\ result[p] \in { Err("Network"), Err("NoReleases") }

LookupEnded(p) == LookupSucceeded(p) \/ LookupFailed(p)

\* C12: when the "latest" endpoint answers a success status with a release,
\* get_latest_release returns that release and asks nothing else; when it
\* answers another status, one request goes to the list endpoint, and a list
\* answered there yields its first element, or NoReleases when it is empty.
C12_LatestThenFirstOfList ==
    \A p \in Procs :
        LET la == net[p].latest_answer
            li == net[p].list_answer
        IN  LookupEnded(p) =>
              /\ (la.arrived /\ IsSuccess(la.status) /\ la.decodes) =>
                    /\ LookupSucceeded(p)
                    /\ release[p] = la.releases[1]
                    /\ net[p].list = 0
              /\ (la.arrived /\ ~IsSuccess(la.status)) =>
                    /\ net[p].list = 1
                    /\ (li.arrived /\ IsSuccess(li.status) /\ li.decodes) =>
                          IF li.releases = << >>
                          THEN LookupFailed(p) /\ result[p] = Err("NoReleases")
                          ELSE LookupSucceeded(p) /\ release[p] = li.releases[1]

\* C12 witness: the lookup fell back to a list of two releases and returned
\* the first
C12_Witness ==
    \E p \in MainFlow :
        /\ LookupSucceeded(p)
        /\ net[p].list = 1
        /\ IsSuccess(net[p].list_answer.status)
        /\ Len(net[p].list_answer.releases) = 2
        /\ release[p] = net[p].list_answer.releases[1]

\* C13: a request of the release lookup that obtains no answer ends the call
\* with a Network error, and an answer of the list endpoint that carries an
\* error status ends it with an error that is not NoReleases, never with a
\* release.
C13_ErrorStatusFailsLookup ==
    \A p \in Procs :
        LET la == net[p].latest_answer
            li == net[p].list_answer
        IN  LookupEnded(p) =>
              /\ (~la.arrived \/ (net[p].list = 1 /\ ~li.arrived)) =>
                    result[p] = Err("Network")
              /\ (net[p].list = 1 /\ li.arrived /\ ~IsSuccess(li.status)) =>
                    /\ LookupFailed(p)
                    /\ result[p] # Err("NoReleases")

\* C14: on a POSIX platform a call that downloaded, extracted and returned
\* Ok leaves the final cache path with mode 0755 exactly; the permission
\* step is reached only with extraction over: the output is closed and the
\* final cache path holds the whole member.
C14_ExecutableAfterExtraction ==
    \A p \in MainFlow :
        /\ (IsUnix(platform) /\ Succeeded(p) /\ ~WasCacheHit(p)) =>
              FinalFile(p).mode = ExecMode
        /\ pc[p] = "perms" =>
              /\ IsUnix(platform)
              /\ fd[p].bfd = 0
              /\ fd[p].rfd = 0
              /\ FinalFile(p).data \in FetchedPayload(p)

\* C14 witness: on linux a first install returned Ok, its file made by
\* File::create and then made executable
C14_Witness ==
    \E p \in MainFlow :
        /\ IsUnix(platform)
        /\ Succeeded(p)
        /\ ~WasCacheHit(p)
        /\ ~snap[p].present
        /\ FinalFile(p).data = Payload(1)
        /\ FinalFile(p).mode = ExecMode

\* C16: a run_interactive call on a path that does not exist returns
\* BinaryNotFound; it started no child and made no terminal-mode call.
C16_MissingBinaryNotRun ==
    \A p \in MainFlow :
        LET r == runres[p]
        IN  (r.path # "" /\ ~Exists(dir, r.path)) =>
                /\ r.result = Err("BinaryNotFound")
                /\ ~r.spawned
                /\ r.term_calls = 0
                /\ pc[p] # "child"

\* C16 witness: run_interactive was called for sdisk on an empty cache
C16_Witness ==
    \E p \in MainFlow :
        /\ runres[p].path = binary_path("sdisk", platform)
        /\ ~Exists(dir, runres[p].path)
        /\ runres[p].result = Err("BinaryNotFound")

\* C17: while the child of run_interactive runs, the terminal is not in raw
\* mode.
C17_ChildStartsCooked ==
    \A p \in MainFlow :
        (pc[p] = "child" \/ runres[p].spawned) => ~raw_mode

\* C17 witness: the menu was shown (raw mode on), a tool was chosen and its
\* child runs
C17_Witness ==
    \E p \in MainFlow :
        /\ pc[p] = "child"
        /\ runres[p].from_menu
        /\ runres[p].term_calls = 1
        /\ ~raw_mode

\* C18: once the child was started and has ended, run_interactive returned
\* Ok whatever the exit status, and it warned exactly when the child ended
\* with a code that is neither 0 nor the SIGINT code.
C18_ExitStatusNeverFails ==
    \A p \in MainFlow :
        LET r == runres[p]
        IN  (r.spawned /\ r.status.ended) =>
                /\ r.result = Ok("")
                /\ r.warned <=>
                      (r.status.has_code /\ r.status.code \notin { 0, SigintCode })

\* C18 witness: the child was interrupted by the user and no warning was made
C18_Witness ==
    \E p \in MainFlow :
        /\ runres[p].spawned
        /\ runres[p].status = Exited(SigintCode)
        /\ runres[p].result = Ok("")
        /\ ~runres[p].warned

\* C19: installed binaries and transient archives are placed under
\* Config::cache_dir: under cache.directory when the settings set it, under
\* the default cache root otherwise.
C19_OverrideWins ==
    \A p \in MainFlow :
        /\ Succeeded(p) =>
              result[p] = Ok(PathJoin(Config_cache_dir(config),
                                      args[p].tool \o binary_extension(platform)))
        /\ pc[p] \in { "chunk", "open", "scan", "copy", "cleanup" } =>
              /\ ArchPath(p) = PathJoin(Config_cache_dir(config), asset[p].name)
              /\ Exists(dir, ArchPath(p))

\* C15: verify_checksum returns true exactly when the expected string spells
\* the SHA-256 digest of the whole file, in whatever letter case.
C15_VerifyIgnoresCase ==
    \A p \in MainFlow :
        LET v == verified[p]
        IN  v.outcome \in { "true", "false" } =>
                ( v.outcome = "true" <=>
                    v.expected.sha256 = Sha256Hex(FileAt(inodes, dir, v.path).data).sha256 )

\* the error kinds that tell a caller the content is wrong
IntegrityErrors == { Err("ChecksumMismatch"), Err("NotInArchive") }

\* C20: a call that received an archive without the tool as a member returns
\* the member-not-found error, and a call that received an archive whose
\* digest is not the expected one returns an integrity error: in neither
\* case Ok, an I/O error or a network error.
C20_IntegrityErrorsReported ==
    \A p \in MainFlow :
        (Returned(p) /\ fetched[p] # << >>) =>
            /\ fetched[p] = OtherArchive(platform) =>
                  result[p] = Err("NotInArchive")
            /\ ~ChecksumMatches(p) => result[p] \in IntegrityErrors

\* the last n characters of a string
Suffix(s, n) == SubSeq(s, Len(s) - n + 1, Len(s))

\* C21: the name download_binary looks an asset up by is
\* <tool>-<os>-<arch><archive extension> of the detected platform, it ends
\* with exactly the platform's archive extension, and it is the name of the
\* asset the download goes on with.
C21_AssetNameComposition ==
    \A p \in Procs :
        pc[p] \in AfterResolve =>
            LET name == asset[p].name
                ext  == IF platform.os = "windows" THEN ".zip" ELSE ".tar.gz"
            IN  /\ name = args[p].tool \o "-" \o platform.os \o "-"
                            \o platform.arch \o ext
                /\ name = asset_name(platform, args[p].tool)
                /\ Len(name) > Len(ext)
                /\ Suffix(name, Len(ext)) = ext
                /\ Suffix(name, Len(".tar.gz")) = ".tar.gz" <=> IsUnix(platform)

\* C21 witness: on Windows the download of sdisk goes on with the asset
\* named sdisk-windows-x86_64.zip
C21_Witness ==
    \E p \in MainFlow :
        /\ pc[p] = "send"
        /\ platform.os = "windows"
        /\ args[p].tool = "sdisk"
        /\ asset[p].name = "sdisk-windows-x86_64.zip"

\* C22: which(name) returns the first entry of PATH, in order, that holds an
\* executable file called name, and nothing when no entry holds one.
C22_LocatesFirstOnPath ==
    located.called => located.found = FirstOnPath(environ.path, located.name)

\* the steps of download_binary before the asset is requested
BeforeDownload == { "get_latest", "get_list", "resolve" }

\* the steps of extract_binary
Extracting == { "open", "scan", "copy" }

EnteredVerifying(p) ==
    /\ verified[p].outcome # "none"
    /\ verified[p].path = ArchPath(p)

\* a download_binary call begins
CallBegins(p) == pc[p] = "idle" /\ calls'[p] = calls[p] - 1

\* C24: every call that started returns in the end, with one outcome (the
\* cached path, the installed path or an error) that nothing changes until
\* the next call begins; and, the caller having an expected checksum, the
\* downloaded archive is verified before extraction starts.
C24_TerminatesAndVerifies ==
    /\ \A p \in MainFlow : [] ( ~Returned(p) /\ pc[p] \notin AtRest
                                  => <> Returned(p) )
    /\ [][ \A p \in MainFlow :
              (Returned(p) /\ ~CallBegins(p)) => result'[p] = result[p] ]_vars
    /\ [] ( \A p \in MainFlow : pc[p] \in Extracting => EnteredVerifying(p) )

\* the release lookup of p's call failed at the "latest" request itself (the
\* answers are kept until the asset is requested)
LatestRequestFailed(p) ==
    LET a == net[p].latest_answer
    IN  /\ net[p].latest = 1
        /\ net[p].asset = 0
        /\ ~a.arrived \/ (IsSuccess(a.status) /\ ~a.decodes)

\* C25: within one download_binary call each of the three requests ("latest"
\* endpoint, list endpoint, asset URL) is issued at most once; the list
\* endpoint is asked only after a "latest" answer with an error status; and
\* a request that failed is followed by no request: the call returns in the
\* step in which the failure is met.
C25_NothingRetries ==
    /\ [] ( \A p \in MainFlow :
              /\ net[p].latest <= 1 /\ net[p].list <= 1 /\ net[p].asset <= 1
              /\ net[p].list = 1 => net[p].latest = 1
              /\ net[p].asset = 1 => net[p].latest = 1
              /\ pc[p] = "get_list" =>
                    /\ net[p].list = 0
                    /\ net[p].latest_answer.arrived
                    /\ ~IsSuccess(net[p].latest_answer.status)
              /\ (Returned(p) /\ LatestRequestFailed(p)) =>
                    /\ result[p] = Err("Network")
                    /\ net[p].list = 0
              /\ (Returned(p) /\ net[p].list = 1 /\ net[p].asset = 0
                    /\ result[p] = Err("Network")) =>
                    (~net[p].list_answer.arrived \/ ~net[p].list_answer.decodes) )
    /\ [][ \A p \in MainFlow :
              /\ net'[p].latest > net[p].latest => pc[p] = "get_latest"
              /\ net'[p].list > net[p].list => pc[p] = "get_list"
              /\ net'[p].asset > net[p].asset => pc[p] = "send"
              /\ (result'[p] # result[p] /\ result'[p][1] = "err") =>
                    (pc'[p] = "idle" /\ Returned(p)') ]_vars

\* C25 witness: the "latest" endpoint answered with an error status, the one
\* request to the list endpoint failed, and the call returned the error
\* without asking again
C25_Witness ==
    \E p \in MainFlow :
        /\ Returned(p)
        /\ result[p] = Err("Network")
        /\ net[p].latest = 1
        /\ net[p].list = 1
        /\ net[p].asset = 0
        /\ ~net[p].list_answer.arrived

\* a chunk of p's download is written to the archive in this step
ChunkWritten(p) == pc[p] = "chunk" /\ Len(fetched'[p]) > Len(fetched[p])

BodyLength(p) == Len(fetched[p]) + Len(stream[p])

\* C27: the total the progress bar is made with is the Content-Length of the
\* response when the response has one, whatever size the release metadata
\* gives, and the size of the asset in the release metadata otherwise.
C27_TotalFromContentLength ==
    \A p \in MainFlow :
        pc[p] \in { "create", "chunk" } =>
            /\ pb[p].live
            /\ host.content_length => pb[p].length = BodyLength(p)
            /\ ~host.content_length => pb[p].length = asset[p].size

\* C27 witness: a response whose Content-Length differs from the size in the
\* release metadata; the bar's total is the Content-Length
C27_Witness ==
    \E p \in MainFlow :
        /\ pc[p] = "chunk"
        /\ host.content_length
        /\ BodyLength(p) # asset[p].size
        /\ pb[p].length = BodyLength(p)

\* the positions of the entry headers of an archive whose path ends in one
\* of names
Matching(data, names) ==
    { i \in 1 .. Len(data) :
        /\ data[i][1] = "hdr"
        /\ data[i][2] # << >>
        /\ data[i][2][Len(data[i][2])] \in names }

FirstOf(positions) == CHOOSE i \in positions : \A j \in positions : i <= j

\* the bytes of the entry whose header is at position i
MemberAt(data, i) == SubSeq(data, i + 1, i + data[i][3])

\* the call of p treated the archive it received as an archive whose member
\* is the first entry with a base name in names: it copies that entry and
\* reads nothing behind it, and reports a missing member exactly when no
\* entry has such a name
ExtractsFirstNamed(p, names) ==
    LET m == Matching(fetched[p], names)
    IN  /\ pc[p] = "copy" =>
              /\ m # { }
              /\ fd[p].rpos > FirstOf(m)
              /\ fd[p].rpos <= FirstOf(m) + fetched[p][FirstOf(m)][3] + 1
              /\ fd[p].rpos + fd[p].remain = FirstOf(m) + fetched[p][FirstOf(m)][3] + 1
        /\ (Returned(p) /\ fetched[p] # << >>) =>
              /\ result[p] = Err("NotInArchive") <=> m = { }
              /\ Succeeded(p) =>
                    /\ m # { }
                    /\ FinalFile(p).data = MemberAt(fetched[p], FirstOf(m))

\* C28: from a .tar.gz archive extract_binary copies the first entry, in the
\* order of the archive, whose base file name is the name of the tool, reads
\* no entry behind it, and fails with the member-not-found error exactly when
\* no entry has that base file name.
C28_TarFirstMatchingEntry ==
    \A p \in MainFlow :
        ArchiveFormat(archive_extension(platform)) = "tar.gz" =>
            ExtractsFirstNamed(p, { args[p].tool })

\* C28 witness: on Linux the tool was installed from the archive that holds
\* it as bin/<tool> behind docs/README and before a damaged old/<tool>
C28_Witness ==
    \E p \in MainFlow :
        /\ platform.os = "linux"
        /\ Succeeded(p)
        /\ fetched[p] = NestedArchive(platform, args[p].tool)
        /\ FinalFile(p).data = Payload(2)

\* archive format tags, those of the two formats and others
FormatTags == { ".tar.gz", ".zip", ".tar.xz", ".7z", "" }

\* C29: from a .zip archive extract_binary copies the first entry, in index
\* order, whose base file name is the name of the tool or that name with the
\* platform's binary suffix, and fails with the member-not-found error
\* exactly when no entry has such a name; a format tag other than .tar.gz and
\* .zip selects the unsupported-format arm, which fails before any file is
\* opened or created.
C29_ZipFirstMatchingEntry ==
    /\ [] ( \A p \in MainFlow :
              ArchiveFormat(archive_extension(platform)) = "zip" =>
                  ExtractsFirstNamed(p, { args[p].tool,
                                          args[p].tool \o binary_extension(platform) }) )
    /\ [] ( \A tag \in FormatTags :
              ArchiveFormat(tag) = "unsupported" <=> tag \notin { ".tar.gz", ".zip" } )
    /\ [][ \A p \in MainFlow :
              ( /\ pc[p] = "open"
                /\ pc'[p] # "open"
                /\ archive_extension(platform) \notin { ".tar.gz", ".zip" } )
              => /\ result'[p] = Err("UnsupportedArchive")
                 /\ FinalFile(p)' = FinalFile(p) ]_vars

\* C29 witness: on Windows the tool was installed from the archive that lists
\* <tool> before <tool>.exe: the installed bytes are those of the first
C29_Witness ==
    \E p \in MainFlow :
        /\ platform.os = "windows"
        /\ Succeeded(p)
        /\ fetched[p] = SuffixOrderArchive(platform, args[p].tool)
        /\ FinalFile(p).data = << Dat(51) >>

\* an archive built from one file called tool that holds content
ArchiveOf(pl, tool, content) ==
    << Hdr(<< tool >>, Len(content)) >> \o content \o Trailer(pl, 1)

\* the contents of the published builds of a tool
Builds == { Payload(v) : v \in Versions } \cup { SmallPayload }

\* C30: a call that succeeds on an archive built from one file called by the
\* name of the tool leaves at the final cache path exactly the bytes of that
\* file, whatever the path held before: the file is created afresh, never
\* appended to or overwritten in part.
C30_ExtractionRoundTrip ==
    \A p \in MainFlow : \A content \in Builds :
        ( /\ Succeeded(p)
          /\ fetched[p] = ArchiveOf(platform, args[p].tool, content) )
        => /\ FinalFile(p).present
           /\ FinalFile(p).data = content

\* C30 witness: the final path held a longer file and holds the one byte of
\* the new build
C30_Witness ==
    \E p \in MainFlow :
        /\ Succeeded(p)
        /\ fetched[p] = ArchiveOf(platform, args[p].tool, SmallPayload)
        /\ snap[p].present
        /\ Len(snap[p].data) > Len(SmallPayload)
        /\ FinalFile(p).data = SmallPayload

\* C31: a download_binary call that returns the final cache path as a cache
\* hit returns a path at which check_binary_exists holds (an entry that is a
\* regular file), so no tool check_binaries has just found missing is
\* returned as a cache hit.
C31_CacheHitAgreesWithCheck ==
    \A p \in MainFlow :
        (Returned(p) /\ WasCacheHit(p)) =>
            /\ result[p] = Ok(BinPath(p))
            /\ check_binary_exists(inodes, dir, BinPath(p))
            /\ (avail.checked /\ ~config.behavior.use_system_binaries)
                  => avail.paths[args[p].tool] = << BinPath(p) >>

\* C32: download_asset starts from an empty archive file: what an earlier
\* attempt left at the archive path is cut off when the file is created, the
\* archive file holds exactly the bytes of the current response while they
\* are written, and a binary installed by the call consists of bytes of the
\* current response only.
C32_ArchiveStartsEmpty ==
    /\ [] ( \A p \in MainFlow :
              /\ pc[p] = "chunk" =>
                    FileAt(inodes, dir, ArchPath(p)).data = fetched[p]
              /\ pc[p] = "open" =>
                    /\ FileAt(inodes, dir, ArchPath(p)).data = fetched[p]
                    /\ Len(FileAt(inodes, dir, ArchPath(p)).data) = downloaded[p]
              /\ (Succeeded(p) /\ ~WasCacheHit(p)) =>
                    \E i \in 1 .. Len(fetched[p]) :
                        /\ fetched[p][i][1] = "hdr"
                        /\ FinalFile(p).data = MemberAt(fetched[p], i) )
    /\ [][ \A p \in MainFlow :
              (pc[p] = "create" /\ pc'[p] = "chunk") =>
                  /\ FileAt(inodes, dir, ArchPath(p))'.present
                  /\ FileAt(inodes, dir, ArchPath(p))'.data = << >> ]_vars

\* C32 witness: the archive path held more bytes, left by an earlier call,
\* than the response now written in full to the archive file
C32_Witness ==
    \E p \in MainFlow :
        /\ pc[p] = "open"
        /\ fd[p].truncated > Len(fetched[p])
        /\ fetched[p] # << >>
        /\ FileAt(inodes, dir, ArchPath(p)).data = fetched[p]

\* C33: the body of an asset response is written to the archive file whatever
\* the status of the response, and a call whose asset request was answered
\* with a status that is not a success never returns Ok with a binary
\* installed.
C33_ErrorStatusNeverInstalls ==
    \A p \in MainFlow :
        /\ pc[p] \in { "chunk", "open" } =>
              FileAt(inodes, dir, ArchPath(p)).data = fetched[p]
        /\ (Succeeded(p) /\ ~WasCacheHit(p)) => IsSuccess(host.asset_status)

\* check_binaries returns in this step
ChecksBinaries == avail' # avail

\* a regular file is at the cache path of tool t
CachedRegularFile(t) ==
    LET path == binary_path(t, platform)
    IN  dir[path] # 0 /\ inodes[dir[path]].mode # DirMode

\* C34: check_binaries reports a tool with a path exactly when system
\* binaries are preferred and which() finds the tool, or a regular file is at
\* its cache path; the answer of which() is the path reported whenever there
\* is one, also when the cache entry exists; which() is not called when
\* system binaries are not preferred; and the step requests nothing from the
\* release host and changes no file.
C34_CheckBinariesReport ==
    [][ ChecksBinaries =>
          LET sys == config.behavior.use_system_binaries
          IN  /\ \A t \in Tools :
                    LET on_path == which_result(environ, platform, t)
                    IN  /\ avail'.paths[t] # << >>
                            <=> ( (sys /\ on_path # << >>) \/ CachedRegularFile(t) )
                        /\ (sys /\ on_path # << >>) => avail'.paths[t] = on_path
                        /\ (avail'.paths[t] # << >> /\ ~(sys /\ on_path # << >>))
                            => avail'.paths[t] = << binary_path(t, platform) >>
              /\ ~sys => (avail'.consulted = { } /\ located' = located)
              /\ sys => avail'.consulted = Tools
              /\ UNCHANGED << dir, inodes, net, pc, fd, result, calls >> ]_vars

\* C34 witness: system binaries are preferred, sb is on PATH and in the
\* cache, and check_binaries reported the PATH entry
C34_Witness ==
    /\ avail.checked
    /\ config.behavior.use_system_binaries
    /\ CachedRegularFile("sb")
    /\ avail.paths["sb"] = << "/usr/local/bin/sb" >>
    /\ avail.paths["sdisk"] = << >>

\* C37: the selected index of the menu is always an index of the item list;
\* Down on the last item selects the first and otherwise the next one, Up on
\* the first item selects the last and otherwise the previous one, and Enter
\* ends run_loop with the choice stored at the selected index, leaving the
\* selection where it was.
C37_SelectionValidAndWraps ==
    /\ [](\E i \in 0 .. MenuLen - 1 : menu.selected = << i >>)
    /\ [][ (menu'.key # "none" /\ menu.result = "none") =>
              LET i == menu.selected[1]
                  j == menu'.selected[1]
              IN  /\ menu'.key = "Down" =>
                        j = IF i = MenuLen - 1 THEN 0 ELSE i + 1
                  /\ menu'.key = "Up" =>
                        j = IF i = 0 THEN MenuLen - 1 ELSE i - 1
                  /\ menu'.key = "Enter" =>
                        (j = i /\ menu'.result = MenuItems[i + 1])
                  /\ menu'.key \in { "Quit", "Other" } => j = i ]_vars

\* C37 witness: Down was pressed on the last item and the first is selected
C37_Witness ==
    /\ pc["p1"] = "menu"
    /\ menu.key = "Down"
    /\ menu.selected = << 0 >>

\* C38 (as stated): whenever Menu::run has returned after enable_raw_mode
\* succeeded, raw mode is disabled.  Violated: the early returns of
\* menu.rs:62-64 (EnterAlternateScreen or Terminal::new fails) skip
\* disable_raw_mode.
C38_RunLeavesRawModeDisabled ==
    (menu.enabled /\ menu.returned # "none") => ~raw_mode

\* a download_binary call of flow p begins in this step
CallStarts(p) == calls'[p] < calls[p]

\* the file at the cache path of tool t
CacheEntry(t) == FileAt(inodes, dir, binary_path(t, platform))

\* C35: update_binaries starts with sb, and every call it makes is forced
\* and is for the tool whose turn it is; the turn passes only from sb to
\* sdisk and only after the sb call returned Ok; while it is the turn of sb
\* no call for sdisk begins and the cache entry of sdisk does not change;
\* when the sb call has failed the next step of main is its return with the
\* error, after which no file changes and no request is made.
C35_UpdateSbThenSdisk ==
    [][ LET p == "p1"
        IN  /\ (main'.at = "update" /\ main.at # "update") => main'.tool = "sb"
            /\ (main.at = "update" /\ CallStarts(p)) =>
                    (args'[p].force /\ args'[p].tool = main.tool)
            /\ (main.at = "update" /\ main'.at = "update"
                    /\ main'.tool # main.tool) =>
                    /\ main.tool = "sb" /\ main'.tool = "sdisk"
                    /\ args[p].tool = "sb" /\ result[p][1] = "ok"
            /\ (main.at = "update" /\ main.tool = "sb") =>
                    /\ CacheEntry("sdisk")' = CacheEntry("sdisk")
                    /\ ~(CallStarts(p) /\ args'[p].tool = "sdisk")
                    /\ (pc[p] = "idle" /\ calls[p] = 0 /\ result[p][1] = "err")
                            => main'.at = "failed"
            /\ main.at = "failed" => UNCHANGED << dir, inodes, net, args >>
      ]_vars

\* C35 witness: the update was chosen with sdisk installed, the forced sb
\* call failed and main returned the error
C35_Witness ==
    /\ main.at = "failed"
    /\ menu.returned = "UpdateBinaries"
    /\ args["p1"] = [ tool |-> "sb", force |-> TRUE ]
    /\ result["p1"][1] = "err"
    /\ CacheEntry("sdisk").present

\* the call main waits for in its arm has returned an error, or the arm is
\* at a prompt that may fail
ActionFailing(p) ==
    \/ /\ main.at \in { "acquire", "update" }
       /\ pc[p] = "idle" /\ calls[p] = 0 /\ result[p][1] = "err"
    \/ main.at = "launch" /\ pc[p] = "idle" /\ runres[p].result[1] = "err"
    \/ main.at = "prompt"

\* Menu::run is called in this step
MenuShown(p) ==
    /\ pc[p] = "idle" /\ menu.returned = "none"
    /\ (pc'[p] = "menu" \/ menu'.returned = "error")

\* what the loop does apart from how it can fail: it ends with Ok only on
\* Exit, an error of a download or a launch ends it with that error, nothing
\* happens after main returned, and the menu is shown only after
\* check_binaries ran in the same iteration, with its answer still current
LoopRules(p) ==
    /\ (main'.at = "done" /\ main.at # "done") => menu.returned = "Exit"
    /\ (ActionFailing(p) /\ main.at # "prompt" /\ main' # main)
            => main'.at = "failed"
    /\ main.at \in { "done", "failed" } => UNCHANGED vars
    /\ MenuShown(p) =>
            /\ avail.checked
            /\ \A t \in Tools :
                    avail.paths[t] = tool_path(config, environ, platform,
                                               inodes, dir, t)

\* C36 (amended): the loop ends only on Exit, on an error of a menu action,
\* or on an error of Menu::run itself (`menu.run().await?`, main.rs:115);
\* after an error main returns it and nothing more happens; the menu is
\* shown only after check_binaries ran in the same iteration.
C36_LoopEndsOnExitOrError ==
    [][ LET p == "p1"
        IN  /\ LoopRules(p)
            /\ (main'.at = "failed" /\ main.at # "failed") =>
                    (ActionFailing(p) \/ menu.returned = "error")
      ]_vars

\* C36 witness: an action succeeded, check_binaries ran again and the menu
\* is shown for the next iteration
C36_Witness ==
    /\ main.at = "check"
    /\ main.rounds >= 1
    /\ avail.checked
    /\ pc["p1"] = "menu"

\* C36 (as stated): main fails only when a menu action returned an error.
\* Violated: an error of Menu::run ends the loop with no action run.
C36_AsStated ==
    [][ LET p == "p1"
        IN  /\ LoopRules(p)
            /\ (main'.at = "failed" /\ main.at # "failed") => ActionFailing(p)
      ]_vars

====
